---- MODULE Spec2Model ----
(***************************************************************************)
(* A model of the Google Places API key scanner: the GitHubScanner page    *)
(* loops (scanner.py), the api_keys store (database.py), the two-probe     *)
(* validator (validator.py) and the orchestration in main (main.py).       *)
(*                                                                         *)
(* One behaviour is a sequence of invocations of main() against one        *)
(* database file.  The Page Source (GitHub through the browser) and the    *)
(* Google endpoints are the environment: what they answer is chosen        *)
(* nondeterministically from small sets.                                   *)
(***************************************************************************)
EXTENDS Integers, Sequences, FiniteSets, TLC

VARIABLES
  run,          \* number of the current invocation of main()
  args,         \* the parsed arguments of the current invocation
  pc,           \* position of main() in its code
  exit_code,    \* process exit code of the current invocation
  logged_in,    \* GitHubScanner.logged_in
  found_keys,   \* GitHubScanner.found_keys
  from_iter,    \* from_iter parameter of the running search/search_by_path
  kpos,         \* loop position of the running search: keyword/pattern, language, page
  iteration,    \* local `iteration` of the running search
  sresults,     \* local `results` of the running search
  results,      \* local `results` of main()
  add_idx,      \* position of main()'s loop over results
  new_keys,     \* local `new_keys` of main()
  api_keys,     \* rows of table api_keys, in id order
  now,          \* the clock read by datetime.now() / CURRENT_TIMESTAMP
  unchecked,    \* local `unchecked` of validate_keys
  vidx,         \* position of validate_keys' loop over unchecked
  primary,      \* response of the primary probe of the validate_key call in progress
  trace,        \* page requests and sleeps of the current invocation, in order
  baseline,     \* arguments and trace of the invocation that the current one resumes
  pageContent,  \* what the Page Source serves for each work item requested so far
  probes,       \* probes issued by the current validation pass, in order
  verdicts,     \* validate_key calls completed by the current validation pass
  world,        \* the environment: the pages the Page Source can serve and the
                \* responses the provider can give (it never changes)
  scan_history, \* rows of table scan_history, in id order
  call          \* the last call a client made on Database or KeyValidator
                \* directly, with what it returned

vars == <<run, args, pc, exit_code, logged_in, found_keys, from_iter, kpos,
          iteration, sresults, results, add_idx, new_keys, api_keys, now,
          unchecked, vidx, primary, trace, baseline, pageContent, probes,
          verdicts, world, scan_history, call>>

scanVars == <<logged_in, found_keys, from_iter, kpos, iteration, sresults,
              results, add_idx, new_keys>>
valVars  == <<unchecked, vidx, primary, probes, verdicts>>

(***************************************************************************)
(* Bounds of the model.                                                    *)
(***************************************************************************)
MaxRuns       == 2   \* invocations of main() in one behaviour
MaxPagesBound == 2   \* largest --max-pages tried
MaxCalls      == 3   \* calls a client makes on a Database directly

(***************************************************************************)
(* Credentials.  A credential stands for one canonical 39-character token. *)
(***************************************************************************)
Keys == {"AIza_k1", "AIza_k2"}

RECURSIVE SeqToSet(_)
SeqToSet(s) == IF s = <<>> THEN {} ELSE {Head(s)} \cup SeqToSet(Tail(s))

RECURSIVE Count(_, _)
Count(s, x) ==
  IF s = <<>> THEN 0
  ELSE (IF Head(s) = x THEN 1 ELSE 0) + Count(Tail(s), x)

(***************************************************************************)
(* The Page Source.  What one rendered result page holds, reduced to what  *)
(* the scanner reads from it:                                              *)
(*   nav    "error"   driver.get raises                                    *)
(*          "timeout" the results-list container never appears             *)
(*          "ok"      the page rendered                                    *)
(*          "stale"   the page rendered, and what the driver is asked for  *)
(*                    after the wait (find_elements, page_source) raises   *)
(*   raw    the tokens the three API_KEY_PATTERNS match in page_source     *)
(*          that pass the canonical re-check, in match order (a token      *)
(*          matched by two patterns is listed twice)                       *)
(*   items  the result blocks: whether the block has a /blob/ file link,   *)
(*          the link's href and text, and the tokens matched in item.text  *)
(***************************************************************************)
NoItems == <<>>

Block(link, url, path, keys) ==
  [link |-> link, url |-> url, path |-> path, keys |-> keys, fault |-> FALSE]

\* A result block whose element went stale: reading it raises an exception
\* that is not NoSuchElementException.
FaultyBlock ==
  [link |-> TRUE, url |-> "", path |-> "", keys |-> <<>>, fault |-> TRUE]

Page(nav, raw, items) == [nav |-> nav, raw |-> raw, items |-> items]

PageKinds ==
  { Page("error",   <<>>, NoItems),
    Page("timeout", <<>>, NoItems),
    Page("stale",   <<>>, NoItems),
    Page("ok",      <<>>, NoItems),
    Page("ok", <<"AIza_k1", "AIza_k1">>,
         << Block(TRUE, "blob_a", "a.py", <<"AIza_k1">>) >>),
    Page("ok", <<"AIza_k2">>, NoItems),
    Page("ok", <<>>,
         << Block(FALSE, "", "", <<"AIza_k1">>),
            Block(TRUE, "blob_b", "b.env", <<"AIza_k2", "AIza_k1">>) >>),
    Page("ok", <<>>,
         << Block(TRUE, "blob_a", "a.py", <<"AIza_k1">>),
            FaultyBlock,
            Block(TRUE, "blob_b", "b.env", <<"AIza_k2">>) >>) }

\* Work items: what one page request is about.
KwItem(keyword, language, page) == <<"kw", keyword, language, page>>
PathItem(path_pattern, page)    == <<"path", path_pattern, "", page>>

\* scanner.py 409-413 and 320-321: the URL requested for a work item.
SearchUrl(item) == <<"search", item>>

\* The tuple (api_key, source_url, file_path, language) a page call emits.
Result(key, url, path, tag) ==
  [api_key |-> key, source_url |-> url, file_path |-> path, language |-> tag]

ResultKeys(rs) == [i \in 1..Len(rs) |-> rs[i].api_key]

(***************************************************************************)
(* scanner.py 458-469 (and 346-357, 373-384, 488-499): the loop over the   *)
(* matches of one text.  A key that is not in found_keys is added to it    *)
(* and emitted; a key that is in it is passed over.  `st` carries          *)
(* found_keys and the page call's results list.                            *)
(***************************************************************************)
RECURSIVE ExtractKeysNoDedup(_, _, _, _, _)
ExtractKeysNoDedup(matches, st, url, path, tag) ==
  IF matches = <<>> THEN st
  ELSE ExtractKeysNoDedup(Tail(matches),
         [found |-> st.found \cup {Head(matches)},
          out   |-> Append(st.out, Result(Head(matches), url, path, tag))],
         url, path, tag)

RECURSIVE ExtractLoop(_, _, _, _, _)
ExtractLoop(matches, st, url, path, tag) ==
  IF matches = <<>> THEN st
  ELSE LET key == Head(matches)
           st2 == IF key \notin st.found
                    THEN [found |-> st.found \cup {key},
                          out   |-> Append(st.out, Result(key, url, path, tag))]
                    ELSE st
       IN  ExtractLoop(Tail(matches), st2, url, path, tag)

ExtractKeys(matches, st, url, path, tag) ==
  ExtractLoop(matches, st, url, path, tag)

(***************************************************************************)
(* scanner.py 477-501 (and 366-386): the loop over the result blocks.  A   *)
(* block without a file link raises NoSuchElementException and is passed   *)
(* over; otherwise its text is searched with the block's href and link     *)
(* text as source_url and file_path.  Any other exception leaves the loop   *)
(* for the except clause at 503 (387), which passes over it.               *)
(***************************************************************************)
RECURSIVE ExtractItemsLosesAll(_, _, _)
ExtractItemsLosesAll(items, st, tag) ==
  IF items = <<>> THEN st
  ELSE LET item == Head(items)
           st2  == IF item.link
                     THEN ExtractKeys(item.keys, st, item.url, item.path, tag)
                     ELSE st
       IN  IF item.fault THEN [st EXCEPT !.out = <<>>]
           ELSE ExtractItemsLosesAll(Tail(items), st2, tag)

RECURSIVE ExtractItems(_, _, _)
ExtractItems(items, st, tag) ==
  IF items = <<>> THEN st
  ELSE IF Head(items).fault THEN st
  ELSE LET item == Head(items)
           st2  == IF item.link
                     THEN ExtractKeys(item.keys, st, item.url, item.path, tag)
                     ELSE st
       IN  ExtractItems(Tail(items), st2, tag)

(***************************************************************************)
(* scanner.py 393-507, GitHubScanner._search_page, for a page that         *)
(* rendered or timed out (driver.get raising is handled by the caller's    *)
(* except clause): the new found_keys and the list returned.  On a stale   *)
(* page the first find_elements (435) raises inside the try statement and  *)
(* the except clause at 503 passes over it: the empty list is returned.    *)
(***************************************************************************)
SearchPage(found, keyword, language, page, content) ==
  LET st0 == [found |-> found, out |-> <<>>]
      url == SearchUrl(KwItem(keyword, language, page))
  IN  IF content.nav \in {"timeout", "stale"} THEN st0
      ELSE ExtractItems(content.items,
                        ExtractKeys(content.raw, st0, url, "", language),
                        language)

\* scanner.py 281 and 341: path_pattern.split("/")[-1].replace("*", "").
FileType(path_pattern) ==
  CASE path_pattern = "path:**/.env"    -> ".env"
    [] path_pattern = "path:**/*.ipynb" -> ".ipynb"
    [] OTHER                            -> path_pattern

(***************************************************************************)
(* scanner.py 306-391, GitHubScanner._search_path_page, when it returns.   *)
(***************************************************************************)
SearchPathPage(found, path_pattern, page, content) ==
  LET st0 == [found |-> found, out |-> <<>>]
      url == SearchUrl(PathItem(path_pattern, page))
      file_type == FileType(path_pattern)
  IN  IF content.nav = "timeout" THEN st0
      ELSE ExtractItems(content.items,
                        ExtractKeys(content.raw, st0, url, path_pattern, file_type),
                        file_type)

\* scanner.py 56-82: HIGH_VALUE_PATHS (two of its entries).
HIGH_VALUE_PATHS == <<"path:**/.env", "path:**/*.ipynb">>

(***************************************************************************)
(* Events of an invocation's trace.                                        *)
(***************************************************************************)
NoItem == <<"none", "", "", 0>>
ReqEvent(item, iter) == [ev |-> "req",   item |-> item,   iter |-> iter, secs |-> 0]
SleepEvent(secs)     == [ev |-> "sleep", item |-> NoItem, iter |-> 0,    secs |-> secs]

RECURSIVE Requests(_)
Requests(tr) ==
  IF tr = <<>> THEN <<>>
  ELSE IF Head(tr).ev = "req" THEN <<Head(tr).item>> \o Requests(Tail(tr))
       ELSE Requests(Tail(tr))

\* The Page Source serves the same content for the same work item: an item
\* requested before is served what it was served then.
Serves(item) ==
  IF item \in DOMAIN pageContent THEN {pageContent[item]} ELSE world.pages

Served(item, content) ==
  IF item \in DOMAIN pageContent THEN pageContent
  ELSE [i \in DOMAIN pageContent \cup {item} |->
          IF i = item THEN content ELSE pageContent[i]]

\* scanner.py 418-431 and 326-338: what raises out of a page call.
\* driver.get raises in both; on a stale page _search_path_page reads
\* page_source (344) outside any try statement.
PageRaises(mode, content) ==
  \/ content.nav = "error"
  \/ mode = "path" /\ content.nav = "stale"

\* scanner.py 431 and 338: the wait for dynamic content of a page whose
\* results container appeared.
Rendered(content) == content.nav \in {"ok", "stale"}

\* The trace after a page call: the request, the wait for dynamic content
\* and the caller's sleeps.
Logged(item, iter, content, sleeps) ==
  trace \o <<ReqEvent(item, iter)>>
        \o (IF Rendered(content) THEN <<SleepEvent(2)>> ELSE <<>>)
        \o sleeps

(***************************************************************************)
(* Loop positions of search (scanner.py 209-211) and search_by_path        *)
(* (273-274).  kpos.k indexes the keyword or the pattern, kpos.l the       *)
(* language (1 in path mode), kpos.p is the page.                          *)
(***************************************************************************)
FirstPos == [k |-> 1, l |-> 1, p |-> 1]

\* `break`, or the page loop running out: the next combination's page 1.
NextCombo(pos, nlang) ==
  IF pos.l < nlang THEN [k |-> pos.k, l |-> pos.l + 1, p |-> 1]
  ELSE [k |-> pos.k + 1, l |-> 1, p |-> 1]

\* The page loop going round: `continue`, or falling off the try statement.
NextPageStays(pos, nlang, max_pages) == pos

NextPageEndsCombo(pos, nlang, max_pages) == NextCombo(pos, nlang)

NextPage(pos, nlang, max_pages) ==
  IF pos.p < max_pages THEN [pos EXCEPT !.p = pos.p + 1]
  ELSE NextCombo(pos, nlang)

(***************************************************************************)
(* Text.  A provider message is the sequence of its characters, so that    *)
(* str.lower() and the `in` substring test are modelled by what they do.   *)
(***************************************************************************)
LowerChar(c) ==
  CASE c = "A" -> "a"
    [] c = "B" -> "b"
    [] c = "C" -> "c"
    [] c = "D" -> "d"
    [] c = "E" -> "e"
    [] c = "F" -> "f"
    [] c = "G" -> "g"
    [] c = "H" -> "h"
    [] c = "I" -> "i"
    [] c = "J" -> "j"
    [] c = "K" -> "k"
    [] c = "L" -> "l"
    [] c = "M" -> "m"
    [] c = "N" -> "n"
    [] c = "O" -> "o"
    [] c = "P" -> "p"
    [] c = "Q" -> "q"
    [] c = "R" -> "r"
    [] c = "S" -> "s"
    [] c = "T" -> "t"
    [] c = "U" -> "u"
    [] c = "V" -> "v"
    [] c = "W" -> "w"
    [] c = "X" -> "x"
    [] c = "Y" -> "y"
    [] c = "Z" -> "z"
    [] OTHER -> c

\* str.lower()
Lower(s) == [i \in 1..Len(s) |-> LowerChar(s[i])]

\* needle in hay
Contains(hay, needle) ==
  \E i \in 0..(Len(hay) - Len(needle)) :
     SubSeq(hay, i + 1, i + Len(needle)) = needle

\* validator.py 58 and 60: the literals of the restriction test.
LIT_API_key        == <<"A", "P", "I", " ", "k", "e", "y">>
LIT_restricted     == <<"r", "e", "s", "t", "r", "i", "c", "t", "e", "d">>
LIT_not_authorized == <<"n", "o", "t", " ", "a", "u", "t", "h", "o", "r", "i", "z", "e", "d">>
\* validator.py 55 and 107: the default of data.get("error_message", ...).
LIT_Request_denied == <<"R", "e", "q", "u", "e", "s", "t", " ", "d", "e", "n", "i", "e", "d">>

\* Messages the provider sends with REQUEST_DENIED.
MSG_key_restricted   == <<"T", "h", "i", "s", " ", "A", "P", "I", " ", "k", "e", "y", " ", "i", "s", " ", "r", "e", "s", "t", "r", "i", "c", "t", "e", "d">>
MSG_not_authorized   == <<"T", "h", "i", "s", " ", "A", "P", "I", " ", "p", "r", "o", "j", "e", "c", "t", " ", "i", "s", " ", "n", "o", "t", " ", "a", "u", "t", "h", "o", "r", "i", "z", "e", "d", " ", "t", "o", " ", "u", "s", "e", " ", "t", "h", "i", "s", " ", "A", "P", "I", ".">>
MSG_Not_Authorized_u == <<"N", "O", "T", " ", "A", "U", "T", "H", "O", "R", "I", "Z", "E", "D">>
MSG_key_invalid      == <<"T", "h", "e", " ", "p", "r", "o", "v", "i", "d", "e", "d", " ", "A", "P", "I", " ", "k", "e", "y", " ", "i", "s", " ", "i", "n", "v", "a", "l", "i", "d", ".">>

ProviderMessages ==
  { MSG_key_restricted, MSG_not_authorized,
    MSG_Not_Authorized_u, MSG_key_invalid }

(***************************************************************************)
(* scanner.py 28-35 and 458-469: the extractor.  A text is the sequence of *)
(* its characters; re.findall scans it from left to right and returns the  *)
(* non-overlapping matches of one pattern (the group, when the pattern has *)
(* one); each match is stripped of quotes and kept when it passes the      *)
(* anchored, case-sensitive re-check.                                      *)
(***************************************************************************)
KeyBodyLen == 35

KeyPrefix == <<"A", "I", "z", "a">>

KeyLen == Len(KeyPrefix) + KeyBodyLen

UpperLetters ==
  {"A", "B", "C", "D", "E", "F", "G", "H", "I", "J", "K", "L", "M", "N", "O",
   "P", "Q", "R", "S", "T", "U", "V", "W", "X", "Y", "Z"}

Digits == {"0", "1", "2", "3", "4", "5", "6", "7", "8", "9"}

\* [0-9A-Za-z\-_]
BodyChars ==
  Digits \cup UpperLetters \cup { LowerChar(c) : c \in UpperLetters } \cup {"-", "_"}

\* ["\']
Quotes == {"\"", "'"}

\* \s
Spaces == {" ", "\t", "\n"}

CharAt(text, i) == IF i \in 1..Len(text) THEN text[i] ELSE ""

\* AIza[0-9A-Za-z\-_]{35} at position i, under re.IGNORECASE or not.
KeyAt(text, i, ignorecase) ==
  /\ i >= 1
  /\ i + KeyLen - 1 <= Len(text)
  /\ LET head == SubSeq(text, i, i + Len(KeyPrefix) - 1)
     IN  IF ignorecase THEN Lower(head) = Lower(KeyPrefix) ELSE head = KeyPrefix
  /\ \A j \in (i + Len(KeyPrefix))..(i + KeyLen - 1) : text[j] \in BodyChars

NoMatch == [len |-> 0, out |-> <<>>]

\* API_KEY_PATTERNS[0], the standard pattern.
PlainAt(text, i) ==
  IF KeyAt(text, i, TRUE)
    THEN [len |-> KeyLen, out |-> SubSeq(text, i, i + KeyLen - 1)]
    ELSE NoMatch

\* API_KEY_PATTERNS[1], the quoted pattern: the match holds the quotes.
QuotedAt(text, i) ==
  IF /\ CharAt(text, i) \in Quotes
     /\ KeyAt(text, i + 1, TRUE)
     /\ CharAt(text, i + 1 + KeyLen) \in Quotes
    THEN [len |-> KeyLen + 2, out |-> SubSeq(text, i, i + 1 + KeyLen)]
    ELSE NoMatch

\* The names of API_KEY_PATTERNS[2], lowered.
AssignNames ==
  { <<"a", "p", "i", "_", "k", "e", "y">>,
    <<"a", "p", "i", "k", "e", "y">>,
    <<"k", "e", "y">>,
    <<"g", "o", "o", "g", "l", "e", "_", "a", "p", "i", "_", "k", "e", "y">>,
    <<"m", "a", "p", "s", "_", "a", "p", "i", "_", "k", "e", "y">>,
    <<"p", "l", "a", "c", "e", "s", "_", "a", "p", "i", "_", "k", "e", "y">> }

RECURSIVE SkipSpaces(_, _)
SkipSpaces(text, i) ==
  IF CharAt(text, i) \in Spaces THEN SkipSpaces(text, i + 1) ELSE i

\* API_KEY_PATTERNS[2], the assignment pattern: name, \s*[=:]\s*, an
\* optional quote, the key (the group findall returns), an optional quote.
AssignAt(text, i) ==
  LET names == { n \in AssignNames :
                   /\ i + Len(n) - 1 <= Len(text)
                   /\ Lower(SubSeq(text, i, i + Len(n) - 1)) = n }
  IN  IF names = {} THEN NoMatch
      ELSE LET name == CHOOSE n \in names : TRUE
               op   == SkipSpaces(text, i + Len(name))
               open == SkipSpaces(text, op + 1)
               key  == IF CharAt(text, open) \in Quotes THEN open + 1 ELSE open
               end  == IF CharAt(text, key + KeyLen) \in Quotes
                         THEN key + KeyLen + 1 ELSE key + KeyLen
           IN  IF CharAt(text, op) \in {"=", ":"} /\ KeyAt(text, key, TRUE)
                 THEN [len |-> end - i, out |-> SubSeq(text, key, key + KeyLen - 1)]
                 ELSE NoMatch

PatternAt(n, text, i) ==
  CASE n = 1 -> PlainAt(text, i)
    [] n = 2 -> QuotedAt(text, i)
    [] OTHER -> AssignAt(text, i)

\* re.findall(API_KEY_PATTERNS[n - 1], text, re.IGNORECASE), from position i.
RECURSIVE FindAll(_, _, _)
FindAll(n, text, i) ==
  IF i > Len(text) THEN <<>>
  ELSE LET m == PatternAt(n, text, i)
       IN  IF m.len > 0 THEN <<m.out>> \o FindAll(n, text, i + m.len)
           ELSE FindAll(n, text, i + 1)

\* match.strip("'\"")
RECURSIVE Strip(_)
Strip(match) ==
  IF match # <<>> /\ Head(match) \in Quotes THEN Strip(Tail(match))
  ELSE IF match # <<>> /\ match[Len(match)] \in Quotes
         THEN Strip(SubSeq(match, 1, Len(match) - 1))
  ELSE match

\* re.match(r'^AIza[0-9A-Za-z\-_]{35}$', key)
IsCanonical(key) == Len(key) = KeyLen /\ KeyAt(key, 1, FALSE)

\* scanner.py 458-465: the keys of a text, pattern by pattern, in match
\* order, before the test against found_keys.
CanonicalMatches(text) ==
  LET all == FindAll(1, text, 1) \o FindAll(2, text, 1) \o FindAll(3, text, 1)
  IN  SelectSeq([ i \in 1..Len(all) |-> Strip(all[i]) ], IsCanonical)

\* A rendered page given by its page source, without result blocks.
SourcePage(text) ==
  [nav |-> "ok", raw |-> CanonicalMatches(text), items |-> NoItems, source |-> text]

(***************************************************************************)
(* Page sources for the extractor: one run of key characters of a given    *)
(* length behind a given prefix, in plain, quoted and assignment forms.    *)
(***************************************************************************)
BodyCycle == <<"S", "y", "D", "9", "x", "_", "Q", "-", "b", "7", "K">>

KeyBody(n) == [ i \in 1..n |-> BodyCycle[((i - 1) % Len(BodyCycle)) + 1] ]

Forms ==
  {"bare", "plain", "dquoted", "squoted", "assign", "assign_bare", "assign_upper"}

SourceText(form, prefix, n) ==
  LET tok == prefix \o KeyBody(n)
  IN  CASE form = "bare"         -> tok
        [] form = "plain"        -> <<"u", "r", "l", ":", " ">> \o tok \o <<" ", "#", " ", "p", "r", "o", "d">>
        [] form = "dquoted"      -> <<"\"">> \o tok \o <<"\"">>
        [] form = "squoted"      -> <<"(", "'">> \o tok \o <<"'", ")">>
        [] form = "assign"       -> <<"k", "e", "y", " ", "=", " ", "'">> \o tok \o <<"'">>
        [] form = "assign_bare"  -> <<"a", "p", "i", "_", "k", "e", "y", ":">> \o tok
        [] OTHER                 -> <<"G", "O", "O", "G", "L", "E", "_", "A", "P", "I", "_", "K", "E", "Y", "=", "\"">> \o tok \o <<"\"">>

NoTokenText == <<"n", "o", " ", "k", "e", "y", " ", "h", "e", "r", "e", " ", "=", " ", "'", "A", "I", "z", "a", "'">>

Prefixes == { KeyPrefix, Lower(KeyPrefix) }

SourceTexts ==
  { SourceText(f, p, n) :
      f \in Forms, p \in Prefixes, n \in (KeyBodyLen - 1)..(KeyBodyLen + 1) }
    \cup { NoTokenText }

SourcePages == { SourcePage(t) : t \in SourceTexts }

(***************************************************************************)
(* Probe responses.  kind "json" is a decoded body with its status field   *)
(* ("" when the field is missing: data.get("status", "")) and, when        *)
(* has_msg, its error_message; the other kinds are what requests.get or    *)
(* response.json() raises.                                                 *)
(***************************************************************************)
Json(status, has_msg, msg) ==
  [kind |-> "json", status |-> status, has_msg |-> has_msg, error_message |-> msg]
Raised(kind) ==
  [kind |-> kind, status |-> "", has_msg |-> FALSE, error_message |-> <<>>]

NoResponse == Raised("none")

StatusCodes ==
  {"OK", "ZERO_RESULTS", "OVER_QUERY_LIMIT", "INVALID_REQUEST", "UNKNOWN_ERROR", ""}

Exceptions == {"Timeout", "RequestException", "Exception"}

Responses ==
  { Json(s, FALSE, <<>>) : s \in StatusCodes \cup {"REQUEST_DENIED"} }
  \cup { Json("REQUEST_DENIED", TRUE, m) : m \in ProviderMessages }
  \cup { Raised(e) : e \in Exceptions }

\* The second element of validate_key's result: None, a literal, or a
\* formatted string with its argument.
None                == [fmt |-> "None", arg |-> <<>>]
Literal(text)       == [fmt |-> text, arg |-> <<>>]
Formatted(fmt, arg) == [fmt |-> fmt, arg |-> arg]

Returns(status, error_msg) ==
  [fallback |-> FALSE, status |-> status, error_msg |-> error_msg]
FallsBack == [fallback |-> TRUE, status |-> "", error_msg |-> None]

\* data.get("error_message", "Request denied")
ErrorMessageOf(data) ==
  IF data.has_msg THEN data.error_message ELSE LIT_Request_denied

(***************************************************************************)
(* validator.py 54-63: the REQUEST_DENIED branch of validate_key.          *)
(***************************************************************************)
RequestDenied(data) ==
  LET error_msg == ErrorMessageOf(data)
  IN  IF Contains(Lower(error_msg), LIT_API_key)
         /\ Contains(Lower(error_msg), LIT_restricted)
        THEN Returns("restricted", Formatted("{}", error_msg))
      ELSE IF Contains(Lower(error_msg), LIT_not_authorized)
        THEN Returns("restricted", Formatted("{}", error_msg))
      ELSE Returns("invalid", Formatted("{}", error_msg))

(***************************************************************************)
(* validator.py 21-80, validate_key up to the call of _try_geocoding:      *)
(* what the primary probe's response makes it return, or that it falls     *)
(* back to the geocoding probe.                                            *)
(***************************************************************************)
PrimaryZeroResultsError(resp) ==
  IF resp.kind = "json" /\ resp.status = "OK" THEN Returns("valid", None)
  ELSE IF resp.kind = "json" /\ resp.status = "OVER_QUERY_LIMIT"
    THEN Returns("rate_limited", Literal("Over query limit"))
  ELSE IF resp.kind = "json" /\ resp.status = "INVALID_REQUEST" THEN FallsBack
  ELSE Returns("error", Formatted("Unknown status: {}", <<resp.status>>))

PrimaryGeocodesOverLimit(resp) ==
  IF resp.kind = "json" /\ resp.status \in {"OVER_QUERY_LIMIT", "INVALID_REQUEST"}
    THEN FallsBack
    ELSE Returns("valid", None)

PrimaryErrorsUnknown(resp) ==
  IF resp.kind # "json" THEN Returns("unknown", None)
  ELSE IF resp.status = "INVALID_REQUEST" THEN FallsBack
  ELSE Returns("valid", None)

ValidateKeyPrimary(resp) ==
  CASE resp.kind = "Timeout" ->
         Returns("error", Literal("Request timeout"))
    [] resp.kind = "RequestException" ->
         Returns("error", Formatted("Request failed: {}", <<resp.kind>>))
    [] resp.kind = "Exception" ->
         Returns("error", Formatted("Unexpected error: {}", <<resp.kind>>))
    [] OTHER ->
         IF resp.status = "OK" \/ resp.status = "ZERO_RESULTS"
           THEN Returns("valid", None)
         ELSE IF resp.status = "REQUEST_DENIED" THEN RequestDenied(resp)
         ELSE IF resp.status = "OVER_QUERY_LIMIT"
           THEN Returns("rate_limited", Literal("Over query limit"))
         ELSE IF resp.status = "INVALID_REQUEST" THEN FallsBack
         ELSE Returns("error", Formatted("Unknown status: {}", <<resp.status>>))

(***************************************************************************)
(* validator.py 82-114, _try_geocoding.                                    *)
(***************************************************************************)
GeocodingZeroResultsValid(resp) ==
  IF resp.kind # "json"
    THEN Returns("error", Formatted("Geocoding fallback failed: {}", <<resp.kind>>))
  ELSE IF resp.status \in {"OK", "ZERO_RESULTS"}
    THEN Returns("valid", Literal("Works with Geocoding API"))
  ELSE IF resp.status = "OVER_QUERY_LIMIT"
    THEN Returns("rate_limited", Literal("Over query limit"))
  ELSE Returns("invalid", Formatted("Status: {}", <<resp.status>>))

TryGeocodingResult(resp) ==
  IF resp.kind # "json"
    THEN Returns("error", Formatted("Geocoding fallback failed: {}", <<resp.kind>>))
  ELSE IF resp.status = "OK"
    THEN Returns("valid", Literal("Works with Geocoding API"))
  ELSE IF resp.status = "REQUEST_DENIED"
    THEN Returns("invalid", Formatted("{}", ErrorMessageOf(resp)))
  ELSE IF resp.status = "OVER_QUERY_LIMIT"
    THEN Returns("rate_limited", Literal("Over query limit"))
  ELSE Returns("invalid", Formatted("Status: {}", <<resp.status>>))

(***************************************************************************)
(* database.py: table api_keys as the sequence of its rows in id order.    *)
(* last_checked 0 is NULL; the clock starts at 1.                          *)
(***************************************************************************)
Row(api_key, source_url, file_path, language, at) ==
  [api_key |-> api_key, status |-> "unknown", source_url |-> source_url,
   file_path |-> file_path, language |-> language, discovered_at |-> at,
   last_checked |-> 0, error_message |-> None, quota_remaining |-> "None"]

HasKey(rows, api_key) == \E i \in 1..Len(rows) : rows[i].api_key = api_key

\* database.py 50-72, add_key: the value returned.
AddKeyReturns(rows, api_key) == ~HasKey(rows, api_key)

\* database.py 50-72, add_key: the table afterwards.  The UNIQUE constraint
\* on api_key makes the INSERT raise IntegrityError when the key is there.
AddKeyAlwaysInserts(rows, api_key, source_url, file_path, language, at) ==
  Append(rows, Row(api_key, source_url, file_path, language, at))

AddKeyReplaces(rows, api_key, source_url, file_path, language, at) ==
  Append(SelectSeq(rows, LAMBDA r : r.api_key # api_key),
         Row(api_key, source_url, file_path, language, at))

AddKey(rows, api_key, source_url, file_path, language, at) ==
  IF HasKey(rows, api_key) THEN rows
  ELSE Append(rows, Row(api_key, source_url, file_path, language, at))

\* database.py 74-87, update_key_status.
UpdateSkipsErrors(rows, api_key, status, error_message, at) ==
  [i \in 1..Len(rows) |->
     IF rows[i].api_key = api_key /\ status # "error"
       THEN [rows[i] EXCEPT !.status = status, !.last_checked = at,
                            !.error_message = error_message,
                            !.quota_remaining = "None"]
       ELSE rows[i]]

UpdateKeyStatusUpserts(rows, api_key, status, error_message, at) ==
  IF HasKey(rows, api_key)
    THEN [i \in 1..Len(rows) |->
            IF rows[i].api_key = api_key
              THEN [rows[i] EXCEPT !.status = status, !.last_checked = at,
                                   !.error_message = error_message,
                                   !.quota_remaining = "None"]
              ELSE rows[i]]
    ELSE Append(rows, [Row(api_key, "", "", "", at) EXCEPT
                         !.status = status, !.last_checked = at,
                         !.error_message = error_message])

UpdateKeyStatus(rows, api_key, status, error_message, at) ==
  [i \in 1..Len(rows) |->
     IF rows[i].api_key = api_key
       THEN [rows[i] EXCEPT !.status = status, !.last_checked = at,
                            !.error_message = error_message,
                            !.quota_remaining = "None"]
       ELSE rows[i]]

\* database.py 89-95, get_unchecked_keys.
GetAllKeys(rows) == rows

GetUncheckedKeys(rows) ==
  SelectSeq(rows, LAMBDA r : r.status = "unknown")

\* database.py 36-46, a row of table scan_history; `at` is the value of
\* CURRENT_TIMESTAMP.
ScanRecord(keyword, language, page, keys_found, at) ==
  [keyword |-> keyword, language |-> language, page |-> page,
   scanned_at |-> at, keys_found |-> keys_found]

\* database.py 125-137, add_scan_record.
AddScanRecord(hist, keyword, language, page, keys_found, at) ==
  Append(hist, ScanRecord(keyword, language, page, keys_found, at))

\* database.py 139-146, get_last_scan_page.  The value returned is <<>> for
\* None and <<n>> for the integer n.  MAX over no row is NULL.
NonePage == <<>>

RECURSIVE MaxOf(_, _)
MaxOf(pages, best) ==
  IF pages = <<>> THEN best
  ELSE MaxOf(Tail(pages),
             IF best = NonePage \/ Head(pages) > best[1] THEN <<Head(pages)>>
             ELSE best)

PagesOf(hist) == [i \in 1..Len(hist) |-> hist[i].page]

GetLastScanPageAnyLanguage(hist, keyword, language) ==
  MaxOf(PagesOf(SelectSeq(hist, LAMBDA r : r.keyword = keyword)), NonePage)

GetLastScanPage(hist, keyword, language) ==
  MaxOf(PagesOf(SelectSeq(hist, LAMBDA r : r.keyword = keyword /\ r.language = language)),
        NonePage)

(***************************************************************************)
(* main.py 38-107, parse_args: the arguments the model distinguishes.      *)
(***************************************************************************)
Args(fi, mp, kws, langs, hv, hvo, ceko) ==
  [from_iter |-> fi, max_pages |-> mp, keywords |-> kws, languages |-> langs,
   high_value |-> hv, high_value_only |-> hvo, check_existed_keys_only |-> ceko]

Modes == { <<FALSE, FALSE>>, <<TRUE, FALSE>>, <<FALSE, TRUE>> }

\* Largest --from-iter tried: one past the longest enumeration.
MaxFromIter == 2 * MaxPagesBound + 1

\* Scans of two combinations: two keywords in one language, or one keyword
\* in two languages.
ScanArgs ==
  { Args(0, mp, c[1], c[2], FALSE, FALSE, FALSE) :
      mp \in 1..MaxPagesBound,
      c \in { << <<"kwA", "kwB">>, <<"py">> >>, << <<"kwA">>, <<"py", "js">> >> } }
  \cup { Args(0, 1, <<"kwA">>, <<"py">>, TRUE, FALSE, FALSE) }
  \cup { Args(0, mp, <<"kwA">>, <<"py">>, FALSE, TRUE, FALSE) : mp \in 1..MaxPagesBound }

\* Whole runs: one combination, any mode, any offset.
MainArgs ==
  { Args(fi, mp, <<"kwA">>, <<"py">>, m[1], m[2], ceko) :
      fi \in {0, 2}, mp \in 1..MaxPagesBound, m \in Modes, ceko \in BOOLEAN }

CheckArgs ==
  { Args(0, mp, <<"kwA">>, <<"py">>, FALSE, FALSE, TRUE) : mp \in {MaxPagesBound} }

(***************************************************************************)
(* main.py 185-205: main up to the scan, and the check-existing-only mode. *)
(***************************************************************************)
\* main.py 199-208: where main goes after the banner.
AfterBannerAlwaysScans(a) == "start"

AfterBanner(a) == IF a.check_existed_keys_only THEN "validate" ELSE "start"

MainBegin ==
  /\ pc = "main"
  /\ pc' = AfterBanner(args)
  /\ UNCHANGED <<run, args, exit_code, scanVars, api_keys, now, valVars,
                 trace, pageContent, world, baseline,
                 scan_history, call>>

(***************************************************************************)
(* main.py 208-216 and scanner.py 150-175: the scanner is constructed and  *)
(* started.  start() verifies the login, or raises (the browser cannot be  *)
(* started) and main's except clause at 257 takes over; a login that is    *)
(* not verified exits with code 1 (closing the session is taken to         *)
(* succeed).                                                               *)
(***************************************************************************)
\* main.py 210-222: where main goes after start().
AfterStartScansAnyway(outcome, a) ==
  CASE outcome = "raises" -> "failed"
    [] OTHER -> IF a.high_value_only THEN "path_begin" ELSE "search_begin"

AfterStart(outcome, a) ==
  CASE outcome = "raises"        -> "failed"
    [] outcome = "not_logged_in" -> "exit"
    [] OTHER -> IF a.high_value_only THEN "path_begin" ELSE "search_begin"

ScannerStart ==
  /\ pc = "start"
  /\ \E outcome \in {"logged_in", "not_logged_in", "raises"} :
       /\ logged_in' = (outcome = "logged_in")
       /\ pc' = AfterStart(outcome, args)
       /\ exit_code' = IF outcome = "not_logged_in" THEN 1 ELSE exit_code
  /\ UNCHANGED <<run, args, found_keys, from_iter, kpos, iteration, sresults,
                 results, add_idx, new_keys, api_keys, now, valVars, trace,
                 pageContent, world, baseline,
                 scan_history, call>>

(***************************************************************************)
(* scanner.py 196-207 (called at main.py 224-229): search begins.          *)
(***************************************************************************)
SearchBegin ==
  /\ pc = "search_begin"
  /\ from_iter' = args.from_iter
  /\ sresults' = <<>>
  /\ iteration' = 0
  /\ kpos' = FirstPos
  /\ pc' = IF logged_in THEN "search" ELSE "search_end"
  /\ UNCHANGED <<run, args, exit_code, logged_in, found_keys, results, add_idx,
                 new_keys, api_keys, now, valVars, trace, pageContent, world, baseline,
                 scan_history, call>>

(***************************************************************************)
(* scanner.py 211-236: one round of search's page loop.                    *)
(***************************************************************************)
\* scanner.py 214 and 277: the resume test, `iteration < from_iter`.
SkipsThrough(iter, from) == iter <= from

Skips(iter, from) == iter < from

\* scanner.py 226 and 292: the test that ends a combination's page loop.
ExhaustedNever(page_results) == FALSE

Exhausted(page_results) == Len(page_results) = 0

SearchIter ==
  /\ pc = "search"
  /\ kpos.k <= Len(args.keywords)
  /\ LET keyword  == args.keywords[kpos.k]
         language == args.languages[kpos.l]
         page     == kpos.p
         item     == KwItem(keyword, language, page)
         nlang    == Len(args.languages)
         iter     == iteration + 1
     IN
     /\ iteration' = iter
     /\ IF Skips(iter, from_iter)
          THEN /\ kpos' = NextPage(kpos, nlang, args.max_pages)
               /\ UNCHANGED <<found_keys, sresults, trace, pageContent, world, baseline,
                 scan_history, call>>
          ELSE \E content \in Serves(item) :
               /\ pageContent' = Served(item, content)
               /\ IF PageRaises("kw", content)
                    THEN /\ trace' = Logged(item, iter, content, <<SleepEvent(5)>>)
                         /\ kpos' = NextPage(kpos, nlang, args.max_pages)
                         /\ UNCHANGED <<found_keys, sresults>>
                    ELSE LET r == SearchPage(found_keys, keyword, language, page, content)
                         IN  /\ found_keys' = r.found
                             /\ sresults' = sresults \o r.out
                             /\ IF Exhausted(r.out)
                                  THEN /\ kpos' = NextCombo(kpos, nlang)
                                       /\ trace' = Logged(item, iter, content, <<>>)
                                  ELSE /\ kpos' = NextPage(kpos, nlang, args.max_pages)
                                       /\ trace' = Logged(item, iter, content, <<SleepEvent(3)>>)
  /\ UNCHANGED <<run, args, pc, exit_code, logged_in, from_iter, results,
                 add_idx, new_keys, api_keys, now, valVars, world, baseline,
                 scan_history, call>>

(***************************************************************************)
(* scanner.py 238 and main.py 230-234: search returns and main goes on to  *)
(* the path phase or to the store.                                         *)
(***************************************************************************)
SearchEnd ==
  /\ \/ pc = "search" /\ kpos.k > Len(args.keywords)
     \/ pc = "search_end"
  /\ results' = results \o sresults
  /\ sresults' = <<>>
  /\ pc' = IF args.high_value \/ args.high_value_only THEN "path_begin" ELSE "add"
  /\ add_idx' = 1
  /\ UNCHANGED <<run, args, exit_code, logged_in, found_keys, from_iter, kpos,
                 iteration, new_keys, api_keys, now, valVars, trace, pageContent, world, baseline,
                 scan_history, call>>

(***************************************************************************)
(* scanner.py 260-271 (called at main.py 237-240): search_by_path begins.  *)
(***************************************************************************)
\* main.py 238: the offset search_by_path is given.
PathFromIterAlways(a) == a.from_iter

PathFromIter(a) == IF a.high_value_only THEN a.from_iter ELSE 0

PathBegin ==
  /\ pc = "path_begin"
  /\ from_iter' = PathFromIter(args)
  /\ sresults' = <<>>
  /\ iteration' = 0
  /\ kpos' = FirstPos
  /\ pc' = IF logged_in THEN "path" ELSE "path_end"
  /\ UNCHANGED <<run, args, exit_code, logged_in, found_keys, results, add_idx,
                 new_keys, api_keys, now, valVars, trace, pageContent, world, baseline,
                 scan_history, call>>

(***************************************************************************)
(* scanner.py 274-302: one round of search_by_path's page loop.            *)
(***************************************************************************)
PathIter ==
  /\ pc = "path"
  /\ kpos.k <= Len(HIGH_VALUE_PATHS)
  /\ LET path_pattern == HIGH_VALUE_PATHS[kpos.k]
         page         == kpos.p
         item         == PathItem(path_pattern, page)
         iter         == iteration + 1
     IN
     /\ iteration' = iter
     /\ IF Skips(iter, from_iter)
          THEN /\ kpos' = NextPage(kpos, 1, args.max_pages)
               /\ UNCHANGED <<found_keys, sresults, trace, pageContent, world, baseline,
                 scan_history, call>>
          ELSE \E content \in Serves(item) :
               /\ pageContent' = Served(item, content)
               /\ IF PageRaises("path", content)
                    THEN /\ trace' = Logged(item, iter, content, <<SleepEvent(5)>>)
                         /\ kpos' = NextPage(kpos, 1, args.max_pages)
                         /\ UNCHANGED <<found_keys, sresults>>
                    ELSE LET r == SearchPathPage(found_keys, path_pattern, page, content)
                         IN  /\ found_keys' = r.found
                             /\ sresults' = sresults \o r.out
                             /\ IF Exhausted(r.out)
                                  THEN /\ kpos' = NextCombo(kpos, 1)
                                       /\ trace' = Logged(item, iter, content, <<>>)
                                  ELSE /\ kpos' = NextPage(kpos, 1, args.max_pages)
                                       /\ trace' = Logged(item, iter, content, <<SleepEvent(3)>>)
  /\ UNCHANGED <<run, args, pc, exit_code, logged_in, from_iter, results,
                 add_idx, new_keys, api_keys, now, valVars, world, baseline,
                 scan_history, call>>

\* scanner.py 304 and main.py 241-244: search_by_path returns.
PathEnd ==
  /\ \/ pc = "path" /\ kpos.k > Len(HIGH_VALUE_PATHS)
     \/ pc = "path_end"
  /\ results' = results \o sresults
  /\ sresults' = <<>>
  /\ pc' = "add"
  /\ add_idx' = 1
  /\ UNCHANGED <<run, args, exit_code, logged_in, found_keys, from_iter, kpos,
                 iteration, new_keys, api_keys, now, valVars, trace, pageContent, world, baseline,
                 scan_history, call>>

(***************************************************************************)
(* main.py 247-249: one round of the loop that stores the results.         *)
(***************************************************************************)
AddKeyStep ==
  /\ pc = "add"
  /\ add_idx <= Len(results)
  /\ LET r == results[add_idx]
     IN  /\ api_keys' = AddKey(api_keys, r.api_key, r.source_url, r.file_path,
                               r.language, now)
         /\ new_keys' = IF AddKeyReturns(api_keys, r.api_key)
                          THEN new_keys + 1 ELSE new_keys
  /\ now' = now + 1
  /\ add_idx' = add_idx + 1
  /\ UNCHANGED <<run, args, pc, exit_code, logged_in, found_keys, from_iter,
                 kpos, iteration, sresults, results, valVars, trace, pageContent, world, baseline,
                 scan_history, call>>

(***************************************************************************)
(* main.py 255-256: the user interrupts the scan.  KeyboardInterrupt is    *)
(* not an Exception, so the except clauses of search and search_by_path    *)
(* (scanner.py 234, 300) let it through to main, whose local `results`     *)
(* is left behind.                                                         *)
(***************************************************************************)
ScanPositions ==
  {"start", "search_begin", "search", "search_end", "path_begin", "path",
   "path_end", "add"}

Interrupt ==
  /\ pc \in ScanPositions
  /\ pc' = "interrupted"
  /\ UNCHANGED <<run, args, exit_code, scanVars, api_keys, now, valVars,
                 trace, pageContent, world, baseline,
                 scan_history, call>>

(***************************************************************************)
(* main.py 257-261: an exception leaves search or search_by_path (what is  *)
(* outside their try statements, scanner.py 203-220 and 267-286) or the    *)
(* loop that stores the results (database.py 57-72 catches IntegrityError  *)
(* only).                                                                  *)
(***************************************************************************)
ScanRaisesExits ==
  /\ pc \in {"search_begin", "search", "path_begin", "path", "add"}
  /\ pc' = "exit"
  /\ exit_code' = 1
  /\ UNCHANGED <<run, args, scanVars, api_keys, now, valVars,
                 trace, pageContent, world, baseline,
                 scan_history, call>>

ScanRaises ==
  /\ pc \in {"search_begin", "search", "path_begin", "path", "add"}
  /\ pc' = "failed"
  /\ UNCHANGED <<run, args, exit_code, scanVars, api_keys, now, valVars,
                 trace, pageContent, world, baseline,
                 scan_history, call>>

(***************************************************************************)
(* scanner.py 109-113 with 196-198 and 260-262: a caller that constructs   *)
(* the scanner and calls search or search_by_path without start(), so      *)
(* that logged_in is as __init__ left it.                                  *)
(***************************************************************************)
SearchUnstarted ==
  /\ pc = "main"
  /\ ~args.check_existed_keys_only
  /\ logged_in = FALSE
  /\ pc' = IF args.high_value_only THEN "path_begin" ELSE "search_begin"
  /\ UNCHANGED <<run, args, exit_code, scanVars, api_keys, now, valVars,
                 trace, pageContent, world, baseline,
                 scan_history, call>>

\* main.py 251-253: the results are stored and the scanner is closed.
ScanClose ==
  /\ pc = "add"
  /\ add_idx > Len(results)
  /\ pc' = "validate"
  /\ UNCHANGED <<run, args, exit_code, scanVars, api_keys, now, valVars,
                 trace, pageContent, world, baseline,
                 scan_history, call>>

(***************************************************************************)
(* main.py 110-118 (called at 202 and 265): validate_keys reads the        *)
(* unchecked keys, and returns when there are none.  main reaches the call *)
(* at 265 from the end of the try statement and from its except clauses.   *)
(***************************************************************************)
ValidateBegin ==
  /\ pc \in {"validate", "interrupted", "failed"}
  /\ unchecked' = GetUncheckedKeys(api_keys)
  /\ vidx' = 1
  /\ probes' = <<>>
  /\ verdicts' = <<>>
  /\ pc' = IF Len(unchecked') = 0 THEN "summary" ELSE "validating"
  /\ UNCHANGED <<run, args, exit_code, scanVars, api_keys, now, primary,
                 trace, pageContent, world, baseline,
                 scan_history, call>>

Probe(api_key, endpoint, resp) ==
  [api_key |-> api_key, endpoint |-> endpoint, response |-> resp]

Verdict(api_key, first, second, ret) ==
  [api_key |-> api_key, primary |-> first, secondary |-> second,
   status |-> ret.status, error_msg |-> ret.error_msg]

(***************************************************************************)
(* main.py 123-137 with validator.py 21-80: one round of validate_keys'    *)
(* loop up to the return of the primary probe.  Unless validate_key falls  *)
(* back to the geocoding probe, it returns and the row is updated.         *)
(***************************************************************************)
ValidateKey ==
  /\ pc = "validating"
  /\ vidx <= Len(unchecked)
  /\ \E resp \in world.responses :
       LET api_key == unchecked[vidx].api_key
           ret     == ValidateKeyPrimary(resp)
       IN  /\ probes' = Append(probes, Probe(api_key, "places", resp))
           /\ IF ret.fallback
                THEN /\ pc' = "geocoding"
                     /\ primary' = resp
                     /\ UNCHANGED <<api_keys, now, vidx, verdicts>>
                ELSE /\ api_keys' = UpdateKeyStatus(api_keys, api_key, ret.status,
                                                    ret.error_msg, now)
                     /\ now' = now + 1
                     /\ vidx' = vidx + 1
                     /\ verdicts' = Append(verdicts,
                                      Verdict(api_key, resp, NoResponse, ret))
                     /\ UNCHANGED <<pc, primary>>
  /\ UNCHANGED <<run, args, exit_code, scanVars, unchecked, trace, pageContent, world, baseline,
                 scan_history, call>>

(***************************************************************************)
(* validator.py 70 and 82-114 with main.py 125: the geocoding probe of the *)
(* validate_key call in progress returns and the row is updated.           *)
(***************************************************************************)
TryGeocoding ==
  /\ pc = "geocoding"
  /\ \E resp \in world.responses :
       LET api_key == unchecked[vidx].api_key
           ret     == TryGeocodingResult(resp)
       IN  /\ probes' = Append(probes, Probe(api_key, "geocode", resp))
           /\ api_keys' = UpdateKeyStatus(api_keys, api_key, ret.status,
                                          ret.error_msg, now)
           /\ verdicts' = Append(verdicts, Verdict(api_key, primary, resp, ret))
  /\ now' = now + 1
  /\ vidx' = vidx + 1
  /\ primary' = NoResponse
  /\ pc' = "validating"
  /\ UNCHANGED <<run, args, exit_code, scanVars, unchecked, trace, pageContent, world, baseline,
                 scan_history, call>>

\* main.py 139-140: validate_keys' loop is over.
ValidateEnd ==
  /\ pc = "validating"
  /\ vidx > Len(unchecked)
  /\ pc' = "summary"
  /\ UNCHANGED <<run, args, exit_code, scanVars, api_keys, now, valVars,
                 trace, pageContent, world, baseline,
                 scan_history, call>>

\* main.py 203-205 and 267-273: the summary is shown and the store closed.
MainEnd ==
  /\ pc = "summary"
  /\ pc' = "done"
  /\ UNCHANGED <<run, args, exit_code, scanVars, api_keys, now, valVars,
                 trace, pageContent, world, baseline,
                 scan_history, call>>

(***************************************************************************)
(* main.py 185-192: main() is invoked again, on the same database file:    *)
(* a new scanner (scanner.py 109-113) and new local variables.             *)
(***************************************************************************)
Invoked(a) ==
  /\ run < MaxRuns
  /\ run' = run + 1
  /\ args' = a
  /\ trace' = <<>>
  /\ pc' = "main"
  /\ exit_code' = 0
  /\ logged_in' = FALSE
  /\ found_keys' = {}
  /\ from_iter' = 0
  /\ kpos' = FirstPos
  /\ iteration' = 0
  /\ sresults' = <<>>
  /\ results' = <<>>
  /\ add_idx' = 1
  /\ new_keys' = 0
  /\ unchecked' = <<>>
  /\ vidx' = 1
  /\ primary' = NoResponse
  /\ probes' = <<>>
  /\ verdicts' = <<>>
  /\ now' = now + 1
  /\ UNCHANGED <<api_keys, world, scan_history, call>>

\* Any arguments; the Page Source may serve other content than before.
Reinvoke ==
  /\ pc \in {"done", "exit"}
  /\ \E a \in MainArgs : Invoked(a)
  /\ pageContent' = <<>>
  /\ UNCHANGED baseline

\* The check-existing-only mode again.
Recheck ==
  /\ pc \in {"done", "exit"}
  /\ \E a \in CheckArgs : Invoked(a)
  /\ pageContent' = <<>>
  /\ UNCHANGED baseline

\* The same parameters with another --from-iter, against a Page Source that
\* serves what it served before.  What the earlier invocation did after its
\* scan (the store, the validation pass) reads and writes no state of the
\* scanner and is left out.
Resume ==
  /\ pc = "add"
  /\ \E fi \in 0..MaxFromIter : Invoked([args EXCEPT !.from_iter = fi])
  /\ baseline' = Append(baseline, [args |-> args, trace |-> trace, results |-> results])
  /\ UNCHANGED pageContent

\* search_by_path over the patterns that an earlier invocation gave search
\* as its keywords, against a Page Source that serves for each (pattern,
\* page) what it served for the keyword request of that pattern and page.
TwinLanguage == "py"

TwinItem(item) == PathItem(item[2], item[4])

Twin ==
  /\ pc = "add"
  /\ ~args.high_value_only
  /\ Invoked([args EXCEPT !.high_value_only = TRUE])
  /\ baseline' = Append(baseline, [args |-> args, trace |-> trace, results |-> results])
  /\ pageContent' =
       [it \in { TwinItem(i) : i \in DOMAIN pageContent } |->
          pageContent[KwItem(it[2], TwinLanguage, it[4])]]

(***************************************************************************)
(* Calls that a client makes on a Database directly, in any order: the     *)
(* methods of database.py with arguments of the declared types.            *)
(***************************************************************************)
NoCall == [op |-> "none", args |-> <<>>, ret |-> <<>>]

Called(op, arguments, ret) ==
  /\ now <= MaxCalls
  /\ call' = [op |-> op, args |-> arguments, ret |-> ret]
  /\ now' = now + 1
  /\ UNCHANGED <<run, args, pc, exit_code, scanVars, valVars, trace, baseline,
                 pageContent, world>>

Urls         == {"blob_a", "blob_b"}
NewStatuses  == {"valid", "error"}
ScanKeywords == {"kwA", "kwB"}
ScanLanguages == {"py", "js"}

AddKeyCall ==
  \E k \in Keys, u \in Urls :
    /\ api_keys' = AddKey(api_keys, k, u, "a.py", "py", now)
    /\ Called("add_key", <<k, u>>, AddKeyReturns(api_keys, k))
    /\ UNCHANGED scan_history

UpdateKeyStatusCall ==
  \E k \in Keys, st \in NewStatuses :
    /\ api_keys' = UpdateKeyStatus(api_keys, k, st,
                                   IF st = "valid" THEN None ELSE Literal("Request timeout"),
                                   now)
    /\ Called("update_key_status", <<k, st>>, None)
    /\ UNCHANGED scan_history

AddScanRecordCall ==
  \E kw \in ScanKeywords, l \in ScanLanguages, p \in 1..MaxPagesBound :
    /\ scan_history' = AddScanRecord(scan_history, kw, l, p, 0, now)
    /\ Called("add_scan_record", <<kw, l, p>>, None)
    /\ UNCHANGED api_keys

GetLastScanPageCall ==
  \E kw \in ScanKeywords, l \in ScanLanguages :
    /\ Called("get_last_scan_page", <<kw, l>>, GetLastScanPage(scan_history, kw, l))
    /\ UNCHANGED <<api_keys, scan_history>>

(***************************************************************************)
(* validator.py 116-138, get_key_info, called by a client: validate_key    *)
(* (the primary probe and, on INVALID_REQUEST, the geocoding probe), then  *)
(* _try_geocoding once more.  The client calls it once.                    *)
(***************************************************************************)
GetKeyInfo(first, second, third) ==
  LET ret     == ValidateKeyPrimary(first)
      status1 == IF ret.fallback THEN TryGeocodingResult(second).status
                 ELSE ret.status
      status2 == TryGeocodingResult(third).status
  IN  [places_api |-> status1 = "valid", geocoding_api |-> status2 = "valid"]

GetKeyInfoCall ==
  \E k \in Keys, first \in world.responses, second \in world.responses,
     third \in world.responses :
    /\ call = NoCall
    /\ probes' = <<Probe(k, "places", first)>>
                   \o (IF ValidateKeyPrimary(first).fallback
                         THEN <<Probe(k, "geocode", second)>> ELSE <<>>)
                   \o <<Probe(k, "geocode", third)>>
    /\ call' = [op |-> "get_key_info", args |-> <<k>>,
                ret |-> GetKeyInfo(first, second, third)]
    /\ UNCHANGED <<run, args, pc, exit_code, scanVars, api_keys, now, unchecked,
                   vidx, primary, verdicts, trace, baseline, pageContent, world,
                   scan_history>>

(***************************************************************************)
(* Initial states.                                                         *)
(***************************************************************************)
Begins(a) ==
  /\ run = 1
  /\ args = a
  /\ pc = "main"
  /\ exit_code = 0
  /\ logged_in = FALSE
  /\ found_keys = {}
  /\ from_iter = 0
  /\ kpos = FirstPos
  /\ iteration = 0
  /\ sresults = <<>>
  /\ results = <<>>
  /\ add_idx = 1
  /\ new_keys = 0
  /\ unchecked = <<>>
  /\ vidx = 1
  /\ primary = NoResponse
  /\ trace = <<>>
  /\ baseline = <<>>
  /\ pageContent = <<>>
  /\ probes = <<>>
  /\ verdicts = <<>>
  /\ scan_history = <<>>
  /\ call = NoCall

\* The environment of whole runs: three of the pages and three of the responses.
FewPages ==
  { p \in PageKinds :
      /\ p.nav = "ok"
      /\ Len(p.raw) + Len(p.items) # 1
      /\ \A i \in 1..Len(p.items) : ~p.items[i].fault }

FewResponses ==
  { Json("OK", FALSE, <<>>), Json("INVALID_REQUEST", FALSE, <<>>),
    Raised("Timeout") }

\* A new database file.
Init ==
  /\ \E a \in MainArgs : Begins(a)
  /\ api_keys = <<>>
  /\ now = 1
  /\ world = [pages |-> FewPages, responses |-> FewResponses]

InitScan ==
  /\ \E a \in ScanArgs : Begins(a)
  /\ api_keys = <<>>
  /\ now = 1
  /\ world = [pages |-> PageKinds, responses |-> FewResponses]

\* Database files that earlier invocations left: rows found by a scan, some
\* of them validated since.
Stored(api_key, status) ==
  [Row(api_key, "blob_a", "a.py", "py", 1) EXCEPT
     !.status = status,
     !.last_checked = IF status = "unknown" THEN 0 ELSE 2,
     !.error_message = IF status \in {"unknown", "valid"} THEN None
                       ELSE Literal("Over query limit")]

StoredTables ==
  { << Stored("AIza_k1", s1), Stored("AIza_k2", s2) >> :
      s1 \in {"unknown", "valid", "rate_limited"}, s2 \in {"unknown", "rate_limited"} }

InitValidate ==
  /\ \E a \in CheckArgs : Begins(a)
  /\ api_keys \in StoredTables
  /\ now = 3
  /\ world = [pages |-> FewPages, responses |-> Responses]

\* One whole invocation of main(), with the failures of the scan phase, on
\* a database file that is new or holds a row.  The scan of the first
\* arguments is the one of three pages of one keyword in language python.
RunArgs ==
  { Args(0, 3, <<"kwA">>, <<"python">>, FALSE, FALSE, FALSE),
    Args(0, 1, <<"kwA">>, <<"python">>, TRUE, FALSE, FALSE),
    Args(0, 1, <<"kwA">>, <<"python">>, FALSE, TRUE, FALSE),
    Args(0, 1, <<"kwA">>, <<"python">>, FALSE, FALSE, TRUE) }

RunPages == FewPages \cup { p \in PageKinds : p.nav = "error" }

RunTables ==
  { <<>>, << Stored("AIza_k2", "unknown") >>, << Stored("AIza_k1", "valid") >>,
    << Stored("AIza_k1", "rate_limited"), Stored("AIza_k2", "unknown") >> }

\* Responses that lead to each of the statuses.
RunResponses ==
  FewResponses
    \cup { Json("OVER_QUERY_LIMIT", FALSE, <<>>),
           Json("REQUEST_DENIED", TRUE, MSG_not_authorized) }

InitRun ==
  /\ \E a \in RunArgs : Begins(a)
  /\ api_keys \in RunTables
  /\ now = 3
  /\ world = [pages |-> RunPages, responses |-> RunResponses]

\* A keyword scan of two pages whose page sources are the extractor's texts.
ExtractArgs == { Args(0, 2, <<"kwA">>, <<"py">>, FALSE, FALSE, FALSE) }

InitExtract ==
  /\ \E a \in ExtractArgs : Begins(a)
  /\ api_keys = <<>>
  /\ now = 1
  /\ world = [pages |-> SourcePages, responses |-> FewResponses]

\* A database file that is new or holds a row, before main() runs.
InitStore ==
  /\ \E a \in CheckArgs : Begins(a)
  /\ api_keys \in RunTables
  /\ now = 1
  /\ world = [pages |-> FewPages, responses |-> FewResponses]

\* Keyword scans whose keywords are the high-value path patterns, in one
\* language, with any offset.
TwinArgs ==
  { Args(fi, mp, HIGH_VALUE_PATHS, <<TwinLanguage>>, FALSE, FALSE, FALSE) :
      fi \in 0..MaxFromIter, mp \in 1..MaxPagesBound }

InitTwin ==
  /\ \E a \in TwinArgs : Begins(a)
  /\ api_keys = <<>>
  /\ now = 1
  /\ world = [pages |-> PageKinds, responses |-> FewResponses]

\* A client of KeyValidator, against a provider that can give any response.
InitInfo ==
  /\ \E a \in CheckArgs : Begins(a)
  /\ api_keys \in RunTables
  /\ now = 1
  /\ world = [pages |-> FewPages, responses |-> Responses]

NextInfo == GetKeyInfoCall

NextStore ==
  AddKeyCall \/ UpdateKeyStatusCall \/ AddScanRecordCall \/ GetLastScanPageCall

Scan ==
  \/ ScannerStart
  \/ SearchBegin \/ SearchIter \/ SearchEnd
  \/ PathBegin \/ PathIter \/ PathEnd
  \/ AddKeyStep \/ ScanClose

Validation ==
  \/ ValidateBegin \/ ValidateKey \/ TryGeocoding \/ ValidateEnd

Next == MainBegin \/ Scan \/ Validation \/ MainEnd \/ Reinvoke

ScanOnly ==
  \/ ScannerStart
  \/ SearchBegin \/ SearchIter \/ SearchEnd
  \/ PathBegin \/ PathIter \/ PathEnd

NextScan == MainBegin \/ ScanOnly \/ Resume

NextTwin == MainBegin \/ ScanOnly \/ Twin

NextValidate == MainBegin \/ Validation \/ MainEnd \/ Recheck

NextRun ==
  MainBegin \/ Scan \/ Validation \/ MainEnd
    \/ Interrupt \/ ScanRaises \/ SearchUnstarted

\* Invocations of main() on a new database file.
Spec == Init /\ [][Next]_vars

\* A scan and the scan that resumes it.
SpecScan == InitScan /\ [][NextScan]_vars

\* Validation passes over a database file that holds rows.
SpecValidate == InitValidate /\ [][NextValidate]_vars

\* The keyword scan over page sources given as texts.
NextExtract == MainBegin \/ ScannerStart \/ SearchBegin \/ SearchIter \/ SearchEnd

SpecExtract == InitExtract /\ [][NextExtract]_vars

\* The same, where the scanner keeps running: the loops of search and
\* search_by_path go round until they end.
SpecScanLive == SpecScan /\ WF_vars(NextScan)

\* A keyword scan and the path scan over the same patterns and pages.
SpecTwin == InitTwin /\ [][NextTwin]_vars

\* A client's calls of get_key_info.
SpecInfo == InitInfo /\ [][NextInfo]_vars

\* A client's calls on a Database.
SpecStore == InitStore /\ [][NextStore]_vars

\* One invocation with interrupts and failures of the scan phase.
SpecRun == InitRun /\ [][NextRun]_vars

\* The same, where the process keeps running: the loops of main, search
\* and validate_keys go round until they end.
SpecRunLive == SpecRun /\ WF_vars(NextRun)

(***************************************************************************)
(* Properties of the scan.                                                 *)
(***************************************************************************)
DropFirst(s, n) == SubSeq(s, n + 1, Len(s))

RECURSIVE RequestsOf(_, _)
RequestsOf(mode, reqs) ==
  IF reqs = <<>> THEN <<>>
  ELSE IF Head(reqs)[1] = mode THEN <<Head(reqs)>> \o RequestsOf(mode, Tail(reqs))
       ELSE RequestsOf(mode, Tail(reqs))

\* The mode whose enumeration --from-iter applies to (main.py 227 and 238).
ResumedMode == IF args.high_value_only THEN "path" ELSE "kw"

\* The scan of the current invocation is over and it resumed an earlier one.
ResumedScanOver == pc = "add" /\ baseline # <<>>

BaselineRequests == RequestsOf(ResumedMode, Requests(baseline[1].trace))
ResumedRequests  == RequestsOf(ResumedMode, Requests(trace))

\* C1: with the same keywords, languages, max_pages and page responses, the
\* work items requested with from_iter = N are the work items requested with
\* from_iter = 0 without the first N of them (in search, and in
\* search_by_path).
C1_ResumeIsTail ==
  ResumedScanOver =>
    ResumedRequests = DropFirst(BaselineRequests, args.from_iter)

\* C2: a baseline scan stopped after k work items and a scan resumed with
\* from_iter = k together request every work item of the uninterrupted
\* baseline exactly once.
C2_NoSkipNoRepeat ==
  (ResumedScanOver /\ args.from_iter <= Len(BaselineRequests)) =>
    LET both == SubSeq(BaselineRequests, 1, args.from_iter) \o ResumedRequests
    IN  \A item \in SeqToSet(BaselineRequests) : Count(both, item) = 1

\* The credentials the scanner reads on a page it was served.
Readable(content) ==
  { j \in 1..Len(content.items) :
      content.items[j].link /\ \A x \in 1..j : ~content.items[x].fault }

Sighted(content) ==
  IF content.nav # "ok" THEN {}
  ELSE SeqToSet(content.raw)
       \cup UNION { SeqToSet(content.items[i].keys) : i \in Readable(content) }

SightedIn(mode) ==
  UNION { Sighted(pageContent[item]) :
            item \in { i \in SeqToSet(Requests(trace)) : i[1] = mode } }

\* Everything the page calls of this scanner have returned so far.
Emitted == ResultKeys(results \o sresults)

\* C3: within one scanner run each credential sighted is emitted once and
\* only once, whatever the page, the block or the search mode it is sighted
\* in again, and found_keys holds exactly the credentials emitted.
C3_EmittedOnce ==
  /\ \A key \in Keys : Count(Emitted, key) <= 1
  /\ found_keys = SeqToSet(Emitted)
  /\ SightedIn("kw") \cup SightedIn("path") = SeqToSet(Emitted)

\* A credential sighted in keyword mode and again in path mode, emitted once.
C3_Witness ==
  /\ pc = "add"
  /\ \E key \in SightedIn("kw") \cap SightedIn("path") : Count(Emitted, key) = 1

(***************************************************************************)
(* Properties of the store.                                                *)
(***************************************************************************)
UniqueKeys(rows) ==
  \A i, j \in 1..Len(rows) : rows[i].api_key = rows[j].api_key => i = j

RowOf(rows, api_key) ==
  rows[CHOOSE i \in 1..Len(rows) : rows[i].api_key = api_key]

\* One round of main's loop over the results and what add_key did in it.
AddKeyEffect ==
  (pc = "add" /\ add_idx' = add_idx + 1) =>
    LET r == results[add_idx]
    IN  IF HasKey(api_keys, r.api_key)
          THEN /\ api_keys' = api_keys
               /\ new_keys' = new_keys
          ELSE /\ Len(api_keys') = Len(api_keys) + 1
               /\ SubSeq(api_keys', 1, Len(api_keys)) = api_keys
               /\ api_keys'[Len(api_keys')].api_key = r.api_key
               /\ api_keys'[Len(api_keys')].status = "unknown"
               /\ api_keys'[Len(api_keys')].source_url = r.source_url
               /\ new_keys' = new_keys + 1

\* C4: add_key of a credential that is not stored creates one row and
\* returns True; add_key of a stored credential returns False and leaves
\* the table as it was, the stored row's source_url, file_path, language
\* and status included; the table never holds two rows of one credential.
C4_StoreUnique == [](UniqueKeys(api_keys)) /\ [][AddKeyEffect]_vars

\* add_key has just been called for a credential whose stored row was
\* validated by an earlier invocation and names another source.
C4_Witness ==
  /\ pc = "add"
  /\ add_idx > 1
  /\ LET r == results[add_idx - 1]
     IN  /\ HasKey(api_keys, r.api_key)
         /\ RowOf(api_keys, r.api_key).source_url # r.source_url
         /\ RowOf(api_keys, r.api_key).status # "unknown"

(***************************************************************************)
(* Properties of validation.                                               *)
(***************************************************************************)
Completed == SeqToSet(verdicts)

\* C5: the primary probe's OK and ZERO_RESULTS give valid, OVER_QUERY_LIMIT
\* gives rate_limited, a timeout gives error "Request timeout", another
\* transport failure gives error with the failure's detail, and a status
\* that is none of OK, ZERO_RESULTS, REQUEST_DENIED, OVER_QUERY_LIMIT,
\* INVALID_REQUEST (a missing status too) gives error with the status.
C5_PrimaryClassification ==
  \A v \in Completed :
    LET p == v.primary
    IN  /\ (p.kind = "json" /\ p.status \in {"OK", "ZERO_RESULTS"}) =>
             (v.status = "valid" /\ v.secondary = NoResponse)
        /\ (p.kind = "json" /\ p.status = "OVER_QUERY_LIMIT") =>
             v.status = "rate_limited"
        /\ p.kind = "Timeout" =>
             (v.status = "error" /\ v.error_msg = Literal("Request timeout"))
        /\ p.kind = "RequestException" =>
             (v.status = "error"
              /\ v.error_msg = Formatted("Request failed: {}", <<"RequestException">>))
        /\ (p.kind = "json"
            /\ p.status \notin {"OK", "ZERO_RESULTS", "REQUEST_DENIED",
                                "OVER_QUERY_LIMIT", "INVALID_REQUEST"}) =>
             (v.status = "error"
              /\ v.error_msg = Formatted("Unknown status: {}", <<p.status>>))

\* A pass that met ZERO_RESULTS, a missing status and a timeout.
C5_Witness ==
  /\ \E v \in Completed : v.primary = Json("ZERO_RESULTS", FALSE, <<>>)
  /\ \E v \in Completed :
       v.primary \in {Json("", FALSE, <<>>), Raised("Timeout")}

\* What the claim calls a message that indicates an API-key restriction or
\* an authorization-scope problem, read without regard to case.
IndicatesRestriction(msg) ==
  \/ Contains(Lower(msg), Lower(LIT_API_key))
     /\ Contains(Lower(msg), Lower(LIT_restricted))
  \/ Contains(Lower(msg), Lower(LIT_not_authorized))

\* C6: REQUEST_DENIED from the primary probe gives restricted when the
\* provider's message indicates an API-key restriction or an authorization
\* problem, and invalid for every other message and for no message.
C6_RequestDenied ==
  \A v \in Completed :
    (v.primary.kind = "json" /\ v.primary.status = "REQUEST_DENIED") =>
      v.status = IF v.primary.has_msg
                    /\ IndicatesRestriction(v.primary.error_message)
                   THEN "restricted" ELSE "invalid"

\* C7 as stated: from the geocoding probe OK gives valid, REQUEST_DENIED
\* invalid, OVER_QUERY_LIMIT rate_limited, and every other outcome, a
\* timeout or transport failure included, invalid with the status code.
C7_SecondaryAllInvalid ==
  \A v \in Completed :
    LET g == v.secondary
    IN  g # NoResponse =>
          IF g.kind = "json" /\ g.status = "OK"
            THEN v.status = "valid"
                 /\ v.error_msg = Literal("Works with Geocoding API")
          ELSE IF g.kind = "json" /\ g.status = "REQUEST_DENIED"
            THEN v.status = "invalid"
          ELSE IF g.kind = "json" /\ g.status = "OVER_QUERY_LIMIT"
            THEN v.status = "rate_limited"
          ELSE v.status = "invalid"
               /\ v.error_msg = Formatted("Status: {}", <<g.status>>)

\* C7 amended: as stated for every response the geocoding probe decodes
\* (ZERO_RESULTS, an unrecognised status, a missing status give invalid
\* with the status code); a timeout, a transport failure or any other
\* exception of the geocoding probe gives error with the failure's detail.
C7_SecondaryClassification ==
  \A v \in Completed :
    LET g == v.secondary
    IN  g # NoResponse =>
          IF g.kind # "json"
            THEN v.status = "error"
                 /\ v.error_msg =
                      Formatted("Geocoding fallback failed: {}", <<g.kind>>)
          ELSE IF g.status = "OK"
            THEN v.status = "valid"
                 /\ v.error_msg = Literal("Works with Geocoding API")
          ELSE IF g.status = "REQUEST_DENIED"
            THEN v.status = "invalid"
          ELSE IF g.status = "OVER_QUERY_LIMIT"
            THEN v.status = "rate_limited"
          ELSE v.status = "invalid"
               /\ v.error_msg = Formatted("Status: {}", <<g.status>>)

\* A pass whose geocoding probes met ZERO_RESULTS and a timeout.
C7_Witness ==
  /\ \E v \in Completed : v.secondary = Json("ZERO_RESULTS", FALSE, <<>>)
  /\ \E v \in Completed : v.secondary = Raised("Timeout")

IsInvalidRequest(resp) == resp.kind = "json" /\ resp.status = "INVALID_REQUEST"

\* C8: validate_key issues the geocoding probe if and only if its primary
\* probe returned INVALID_REQUEST, and after it; OVER_QUERY_LIMIT from the
\* primary probe gives rate_limited without a geocoding probe; one
\* credential gets one primary probe and at most one geocoding probe.
C8_ProbeOrder ==
  /\ \A i \in 1..Len(probes) :
       probes[i].endpoint = "geocode" =>
         /\ i > 1
         /\ probes[i - 1].endpoint = "places"
         /\ probes[i - 1].api_key = probes[i].api_key
         /\ IsInvalidRequest(probes[i - 1].response)
  /\ \A i \in 1..Len(probes) :
       (probes[i].endpoint = "places" /\ IsInvalidRequest(probes[i].response)) =>
         IF i = Len(probes) THEN pc = "geocoding"
         ELSE probes[i + 1].endpoint = "geocode"
  /\ \A v \in Completed :
       /\ Cardinality({ i \in 1..Len(probes) :
            probes[i].api_key = v.api_key /\ probes[i].endpoint = "places" }) = 1
       /\ Cardinality({ i \in 1..Len(probes) :
            probes[i].api_key = v.api_key /\ probes[i].endpoint = "geocode" }) =
          IF IsInvalidRequest(v.primary) THEN 1 ELSE 0
       /\ (v.primary.kind = "json" /\ v.primary.status = "OVER_QUERY_LIMIT") =>
            (v.status = "rate_limited" /\ v.secondary = NoResponse)

\* A pass that fell back to geocoding for one credential and was told
\* OVER_QUERY_LIMIT by the primary probe of another.
C8_Witness ==
  /\ \E i \in 1..Len(probes) : probes[i].endpoint = "geocode"
  /\ \E v \in Completed :
       v.primary.status = "OVER_QUERY_LIMIT" /\ v.status = "rate_limited"

\* A step leaves every row alone whose status is not unknown.
ValidatedRowsKept ==
  /\ Len(api_keys') >= Len(api_keys)
  /\ \A i \in 1..Len(api_keys) :
       api_keys[i].status # "unknown" => api_keys'[i] = api_keys[i]

\* A step probes only credentials whose status is unknown.
ProbesUnknownOnly ==
  Len(probes') > Len(probes) =>
    /\ HasKey(api_keys, probes'[Len(probes')].api_key)
    /\ RowOf(api_keys, probes'[Len(probes')].api_key).status = "unknown"

\* C9: validate_keys probes and updates only rows whose status is unknown:
\* a row that has left unknown keeps its status, last_checked and
\* error_message in every later validation pass, of this invocation or of a
\* later one.
C9_OnlyUnknownValidated == [][ValidatedRowsKept /\ ProbesUnknownOnly]_vars

\* A later invocation's pass has validated a credential while the table
\* holds a row validated by an earlier invocation.
C9_Witness ==
  /\ run > 1
  /\ verdicts # <<>>
  /\ \E i \in 1..Len(api_keys) :
       /\ api_keys[i].status # "unknown"
       /\ \A v \in Completed : v.api_key # api_keys[i].api_key

\* The rows a completed validate_key call has written.
WrittenBack(v) ==
  /\ HasKey(api_keys, v.api_key)
  /\ RowOf(api_keys, v.api_key).status = v.status
  /\ RowOf(api_keys, v.api_key).error_message = v.error_msg
  /\ RowOf(api_keys, v.api_key).last_checked > 0
  /\ RowOf(api_keys, v.api_key).last_checked < now

\* What the pass has written so far, and what it leaves when it is over.
WrittenBackOnce ==
  /\ Len(verdicts) = vidx - 1
  /\ \A i \in 1..Len(verdicts) :
       /\ verdicts[i].api_key = unchecked[i].api_key
       /\ WrittenBack(verdicts[i])
       /\ verdicts[i].status # "unknown"
  /\ \A i, j \in 1..Len(verdicts) :
       i < j => RowOf(api_keys, verdicts[i].api_key).last_checked
                  < RowOf(api_keys, verdicts[j].api_key).last_checked
  /\ pc \in {"summary", "done"} =>
       \A i \in 1..Len(unchecked) :
         RowOf(api_keys, unchecked[i].api_key).status # "unknown"

\* A step of the pass changes the table exactly when it completes a
\* validate_key call, and then in the row of that call's credential only.
OneUpdatePerCall ==
  pc \in {"validating", "geocoding"} =>
    /\ (api_keys' # api_keys) <=> (Len(verdicts') = Len(verdicts) + 1)
    /\ (vidx' # vidx) <=> (Len(verdicts') = Len(verdicts) + 1)
    /\ \A i \in 1..Len(api_keys) :
         api_keys'[i] # api_keys[i] => api_keys[i].api_key = unchecked[vidx].api_key

\* C10: every credential validate_keys picks up is written back once,
\* whatever the probes' outcome, with its status, last_checked and
\* error_message; when the pass is over no row that was unknown at its
\* start is unknown.
C10_AlwaysWritesBack == []WrittenBackOnce /\ [][OneUpdatePerCall]_vars

\* A pass over two unknown rows is over, a probe of which timed out.
C10_Witness ==
  /\ pc = "summary"
  /\ Len(unchecked) = 2
  /\ \E v \in Completed : v.primary.kind \in {"Timeout", "RequestException"}

(***************************************************************************)
(* Properties of one whole invocation.                                     *)
(***************************************************************************)
\* The rows an earlier invocation left, and the rows of this one.
IsOld(r) == r.discovered_at = Stored(r.api_key, "unknown").discovered_at

OldRows(rows) == SelectSeq(rows, IsOld)
NewRows(rows) == SelectSeq(rows, LAMBDA r : ~IsOld(r))

\* main's try statement ran to its end (main.py 253).
ScanCompleted == pc = "validate"

E2EArgs == Args(0, 3, <<"kwA">>, <<"python">>, FALSE, FALSE, FALSE)

E2EItem(page) == KwItem("kwA", "python", page)

\* One credential, in the raw content and in a result snippet.
E2EPageOne ==
  Page("ok", <<"AIza_k1", "AIza_k1">>,
       << Block(TRUE, "blob_a", "a.py", <<"AIza_k1">>) >>)

E2EPageTwo == Page("ok", <<>>, NoItems)

\* The scan of the scenario has completed: page 1 held the credential, page
\* 2 (if it was asked for) was empty, the credential was not stored before.
E2EScenario ==
  /\ ScanCompleted
  /\ args = E2EArgs
  /\ E2EItem(1) \in DOMAIN pageContent
  /\ pageContent[E2EItem(1)] = E2EPageOne
  /\ E2EItem(2) \in DOMAIN pageContent => pageContent[E2EItem(2)] = E2EPageTwo
  /\ ~HasKey(OldRows(api_keys), "AIza_k1")

\* C11: one keyword, language python, max_pages = 3, page 1 holding one
\* credential (raw content and snippet) and page 2 empty: the scan requests
\* page 1, then page 2, never page 3, and the store ends with exactly one
\* new record, of that credential, with status unknown and tag python.
C11_EndToEnd ==
  E2EScenario =>
    /\ Requests(trace) = << E2EItem(1), E2EItem(2) >>
    /\ new_keys = 1
    /\ Len(NewRows(api_keys)) = 1
    /\ NewRows(api_keys)[1].api_key = "AIza_k1"
    /\ NewRows(api_keys)[1].status = "unknown"
    /\ NewRows(api_keys)[1].language = "python"

\* The scenario's scan has completed, on a store that held another row.
C11_Witness ==
  /\ E2EScenario
  /\ E2EItem(2) \in DOMAIN pageContent
  /\ Len(OldRows(api_keys)) = 1

(***************************************************************************)
(* Properties of the order of the page requests of one scan.               *)
(***************************************************************************)
\* The combinations of a scan in enumeration order: keyword by keyword and
\* language by language, then pattern by pattern.
ComboOf(item) == << item[1], item[2], item[3] >>

KwCombos(a) ==
  LET nl == Len(a.languages)
  IN  [ n \in 1..(Len(a.keywords) * nl) |->
          << "kw", a.keywords[((n - 1) \div nl) + 1], a.languages[((n - 1) % nl) + 1] >> ]

PathCombos ==
  [ n \in 1..Len(HIGH_VALUE_PATHS) |-> << "path", HIGH_VALUE_PATHS[n], "" >> ]

Combos(a) ==
  (IF a.high_value_only THEN <<>> ELSE KwCombos(a))
    \o (IF a.high_value \/ a.high_value_only THEN PathCombos ELSE <<>>)

ComboIndex(a, item) ==
  CHOOSE n \in 1..Len(Combos(a)) : Combos(a)[n] = ComboOf(item)

PageOf(item) == item[4]

\* The request after `item` in enumeration order is page 1 of the next
\* combination.
OpensNextCombo(item, next) ==
  /\ PageOf(next) = 1
  /\ ComboIndex(args, next) = ComboIndex(args, item) + 1

FollowsInCombo(item, next) ==
  /\ ComboOf(next) = ComboOf(item)
  /\ PageOf(next) = PageOf(item) + 1

\* The i-th request of this scan, what it was served, whether the page call
\* returned, and the credentials it read that no earlier page of this scan
\* held.
Req(i) == Requests(trace)[i]

ContentAt(i) == pageContent[Req(i)]

ReturnedAt(i) == ~PageRaises(Req(i)[1], ContentAt(i))

NewAt(i) ==
  Sighted(ContentAt(i)) \ UNION { Sighted(ContentAt(j)) : j \in 1..(i - 1) }

\* C12: a page that yields no new credential (empty, results container
\* timed out, or every credential seen before in this run) ends its
\* combination: no later request of this run is of that combination and the
\* next request is page 1 of the next combination; a page that yields a new
\* credential and is not the last is followed by the next page of its
\* combination.
C12_EarlyTermination ==
  LET n == Len(Requests(trace))
  IN  \A i \in 1..n :
        ReturnedAt(i) =>
          IF NewAt(i) = {}
            THEN /\ \A j \in (i + 1)..n : ComboOf(Req(j)) # ComboOf(Req(i))
                 /\ i < n => OpensNextCombo(Req(i), Req(i + 1))
            ELSE (i < n /\ PageOf(Req(i)) < args.max_pages)
                   => FollowsInCombo(Req(i), Req(i + 1))

\* A scan that is over, with a page whose credentials were all seen before
\* and that was not the last of its combination, a timed out page with a
\* request after it, and a page with a new credential that was not the
\* last of its combination.
C12_Witness ==
  LET n == Len(Requests(trace))
  IN  /\ pc = "add"
      /\ \E i \in 1..n :
            /\ Sighted(ContentAt(i)) # {} /\ NewAt(i) = {}
            /\ PageOf(Req(i)) < args.max_pages
      /\ \E i \in 1..(n - 1) : ContentAt(i).nav = "timeout"
      /\ \E i \in 1..(n - 1) : NewAt(i) # {} /\ PageOf(Req(i)) < args.max_pages

(***************************************************************************)
(* Properties of a scan's errors and delays.                               *)
(***************************************************************************)
\* Positions of the trace that are page requests, and for such a position
\* the position of the next request (one past the end when there is none).
ReqPositions == { p \in 1..Len(trace) : trace[p].ev = "req" }

NextReqPos(p) ==
  IF \E q \in ReqPositions : q > p
    THEN CHOOSE q \in ReqPositions :
           q > p /\ \A r \in ReqPositions : r > p => q <= r
    ELSE Len(trace) + 1

\* The sleeps of the scan loop between the request at p and the next one
\* (the wait for dynamic content inside the page call is not one of them).
DelaysAfter(p) ==
  { trace[r].secs : r \in { x \in (p + 1)..(NextReqPos(p) - 1) : trace[x].secs # 2 } }

\* The work item at p failed: navigation raised, or the page went stale
\* under the extraction.
FailedAt(p) == pageContent[trace[p].item].nav \in {"error", "stale"}

NextInOrder(item, next) ==
  IF PageOf(item) < args.max_pages THEN FollowsInCombo(item, next)
  ELSE OpensNextCombo(item, next)

LastInOrder(item) ==
  PageOf(item) = args.max_pages /\ ComboIndex(args, item) = Len(Combos(args))

\* C13: an error during one work item (navigation failure, extraction
\* failure, transient fault of the Page Source) is followed by the longer
\* back-off delay and then by the next work item in enumeration order: the
\* scan neither stops nor skips the remaining pages of the combination.
C13_ItemErrorsNotFatal ==
  \A p \in ReqPositions :
    FailedAt(p) =>
      /\ DelaysAfter(p) = {5}
      /\ NextReqPos(p) <= Len(trace)
            => NextInOrder(trace[p].item, trace[NextReqPos(p)].item)
      /\ (pc = "add" /\ NextReqPos(p) > Len(trace)) => LastInOrder(trace[p].item)

(***************************************************************************)
(* Properties of the login.                                                *)
(***************************************************************************)
\* Nothing is scanned, emitted or stored without a verified login, and an
\* invocation that exited has issued no probe and has a non-zero code.
NothingWithoutLogin ==
  /\ ~logged_in =>
        /\ Requests(trace) = <<>>
        /\ results \o sresults = <<>>
        /\ found_keys = {}
        /\ NewRows(api_keys) = <<>>
  /\ pc = "exit" =>
        /\ exit_code # 0
        /\ probes = <<>> /\ verdicts = <<>>
        /\ api_keys \in RunTables

\* start() returned without a verified login: main exits there and then,
\* and an invocation that exited takes no further step.
ExitsUnverified ==
  /\ (pc = "start" /\ pc' \notin {"failed", "interrupted"} /\ ~logged_in')
        => (pc' = "exit" /\ exit_code' # 0 /\ api_keys' = api_keys)
  /\ pc # "exit"

\* C14: when the login is not verified the run aborts before any scanning:
\* no page request, no credential added, no probe, a non-zero exit code;
\* search and search_by_path on a scanner that is not logged in return the
\* empty list without a request.
C14_LoginFailureFatal == []NothingWithoutLogin /\ [][ExitsUnverified]_vars

\* An invocation that exited on a store holding a row that awaits
\* validation.
C14_Witness ==
  /\ pc = "exit"
  /\ ~logged_in
  /\ Len(GetUncheckedKeys(api_keys)) > 0

(***************************************************************************)
(* Properties of an interrupted scan.                                      *)
(***************************************************************************)
StoredKeys(rows) == { rows[i].api_key : i \in 1..Len(rows) }

\* C15: after a user interrupt at any point of the scan, every credential
\* the scan had accepted as new is in the store (it was created there, in
\* status unknown, when it was first sighted), and the rows written before
\* the interrupt are as they were.
C15_DurableDiscoveries ==
  pc = "interrupted" =>
    /\ found_keys \subseteq StoredKeys(api_keys)
    /\ \A key \in found_keys \ StoredKeys(OldRows(api_keys)) :
          RowOf(api_keys, key).status = "unknown"
    /\ OldRows(api_keys) \in RunTables

(***************************************************************************)
(* Properties of the extractor.                                            *)
(***************************************************************************)
\* The tokens of a text: its maximal runs of key characters.
IsTokenAt(text, i, j) ==
  /\ i <= j
  /\ \A k \in i..j : text[k] \in BodyChars
  /\ CharAt(text, i - 1) \notin BodyChars
  /\ CharAt(text, j + 1) \notin BodyChars

Tokens(text) ==
  { SubSeq(text, i, j) : <<i, j>> \in
      { ij \in (1..Len(text)) \X (1..Len(text)) : IsTokenAt(text, ij[1], ij[2]) } }

\* 'AIza' and exactly 35 key characters.
WellFormed(tok) ==
  Len(tok) = KeyLen /\ SubSeq(tok, 1, Len(KeyPrefix)) = KeyPrefix

\* What the extractor is to return for a text.
Expected(text) == { tok \in Tokens(text) : WellFormed(tok) }

ServedSources == { pageContent[item].source : item \in DOMAIN pageContent }

\* C16: a text with exactly one well-formed token (plain, quoted, or
\* assigned) yields that token, unquoted and in its own case, and nothing
\* else; a text without one yields nothing; a run of 38 or 40 characters
\* never yields a credential.
C16_Extractor ==
  /\ \A text \in ServedSources : Cardinality(Expected(text)) <= 1
  /\ found_keys = UNION { Expected(text) : text \in ServedSources }

(***************************************************************************)
(* Properties of a record's status.                                        *)
(***************************************************************************)
Statuses == {"unknown", "valid", "invalid", "rate_limited", "restricted", "error"}

StatusDomain == \A i \in 1..Len(api_keys) : api_keys[i].status \in Statuses

\* The step is the write-back of the validate_key call on row i.
IsWriteBack(i) ==
  /\ pc \in {"validating", "geocoding"}
  /\ unchecked[vidx].api_key = api_keys[i].api_key
  /\ Len(verdicts') = Len(verdicts) + 1
  /\ verdicts'[Len(verdicts')].api_key = api_keys[i].api_key
  /\ verdicts'[Len(verdicts')].status = api_keys'[i].status

\* Rows stay where they are, a row that appears has status unknown, and a
\* row's status changes in a write-back only.
StatusLifecycle ==
  /\ Len(api_keys') >= Len(api_keys)
  /\ \A i \in 1..Len(api_keys) :
        /\ api_keys'[i].api_key = api_keys[i].api_key
        /\ api_keys'[i].status # api_keys[i].status => IsWriteBack(i)
  /\ \A i \in (Len(api_keys) + 1)..Len(api_keys') :
        /\ api_keys'[i].status = "unknown"
        /\ pc = "add"

\* C17: every record's status is one of unknown, valid, invalid,
\* rate_limited, restricted, error; a record is created with status
\* unknown and its status changes only through a validation write-back,
\* never through scanning or add_key.
C17_StatusLifecycle == []StatusDomain /\ [][StatusLifecycle]_vars

\* The run is over: the scan sighted a credential whose row an earlier run
\* had validated, and the row it created for another one was written back
\* as restricted.
C17_Witness ==
  /\ pc = "done"
  /\ \E i \in 1..Len(api_keys) :
        /\ IsOld(api_keys[i]) /\ api_keys[i].status = "valid"
        /\ api_keys[i].api_key \in found_keys
  /\ \E i \in 1..Len(api_keys) :
        ~IsOld(api_keys[i]) /\ api_keys[i].status = "restricted"

(***************************************************************************)
(* Properties of the run's completion.                                     *)
(***************************************************************************)
\* The process has a non-zero exit code only where main exits because the
\* login was not verified.
NonZeroOnlyUnverified == exit_code # 0 => (pc = "exit" /\ ~logged_in)

\* The run is complete: validate_keys has gone over the unknown rows and
\* the summary was shown and the store closed (main.py 265-273).
RunComplete ==
  /\ pc = "done"
  /\ exit_code = 0
  /\ GetUncheckedKeys(api_keys) = <<>>

BlocksWith(content, key) ==
  { content.items[j] : j \in { x \in Readable(content) :
       key \in SeqToSet(content.items[x].keys) } }

\* The candidate emitted for a key.
CandidateOf(key) ==
  LET all == results \o sresults
  IN  all[CHOOSE n \in 1..Len(all) : all[n].api_key = key]

\* C19: a credential that is new in this run and appears in a result block
\* with a file link is emitted with that result's URL as source_url and its
\* file path as file_path, also when the raw content of the same page holds
\* the credential.
C19_MetadataRecovered ==
  \A i \in 1..Len(Requests(trace)) :
    (ReturnedAt(i) /\ ContentAt(i).nav = "ok") =>
      \A key \in NewAt(i) :
        BlocksWith(ContentAt(i), key) # {} =>
          \E b \in BlocksWith(ContentAt(i), key) :
            /\ CandidateOf(key).source_url = b.url
            /\ CandidateOf(key).file_path = b.path

\* The page call of the request at trace position p raised.
RaisedAt(p) == PageRaises(trace[p].item[1], pageContent[trace[p].item])

\* C20: between any two consecutive page requests of a scan there is a
\* delay: the pacing delay (3 s) after a page that was processed without
\* error, whether it held credentials or was empty, the back-off delay
\* (5 s) after a page that raised an error; no two requests are issued back
\* to back.
C20_RequestPacing ==
  \A p \in ReqPositions :
    NextReqPos(p) <= Len(trace) =>
      DelaysAfter(p) = IF RaisedAt(p) THEN {5} ELSE {3}

\* The step is the client's call `op`.
IsCall(op) == now' = now + 1 /\ call'.op = op

\* The columns that update_key_status leaves alone.
Discovery(row) ==
  <<row.api_key, row.source_url, row.file_path, row.language, row.discovered_at>>

\* C21: no operation deletes a record, so the stored credentials only grow;
\* update_key_status changes only status, last_checked, error_message and
\* quota_remaining of the one record with the given credential, leaving its
\* source_url, file_path, language and discovered_at and every other record
\* unchanged; for a credential that is not stored it creates no record.
C21_StoreFrame ==
  [][ /\ Len(api_keys') >= Len(api_keys)
      /\ \A i \in 1..Len(api_keys) : api_keys'[i].api_key = api_keys[i].api_key
      /\ IsCall("update_key_status") =>
            /\ Len(api_keys') = Len(api_keys)
            /\ \A i \in 1..Len(api_keys) :
                  IF api_keys[i].api_key = call'.args[1]
                    THEN Discovery(api_keys'[i]) = Discovery(api_keys[i])
                    ELSE api_keys'[i] = api_keys[i]
            /\ ~HasKey(api_keys, call'.args[1]) => api_keys' = api_keys ]_vars

\* An update of a stored record was followed by the update of a credential
\* that is not stored.
C21_Witness ==
  /\ call.op = "update_key_status"
  /\ ~HasKey(api_keys, call.args[1])
  /\ \E i \in 1..Len(api_keys) : api_keys[i].status = "error"

\* The pages recorded for one combination.
RecordedPages(keyword, language) ==
  { scan_history[i].page :
      i \in { j \in 1..Len(scan_history) :
                /\ scan_history[j].keyword = keyword
                /\ scan_history[j].language = language } }

\* What the claim expects of get_last_scan_page for one combination.
IsLastPage(ret, keyword, language) ==
  IF RecordedPages(keyword, language) = {} THEN ret = NonePage
  ELSE /\ Len(ret) = 1
       /\ ret[1] \in RecordedPages(keyword, language)
       /\ \A q \in RecordedPages(keyword, language) : q <= ret[1]

\* C23: the scan history is append-only, and after any sequence of
\* add_scan_record calls get_last_scan_page(keyword, language) returns the
\* largest page recorded for exactly that keyword and language, None when
\* no record exists for the combination; records of other combinations do
\* not affect the result.
C23_ScanProgress ==
  /\ [](/\ \A kw \in ScanKeywords, l \in ScanLanguages :
             IsLastPage(GetLastScanPage(scan_history, kw, l), kw, l)
        /\ call.op = "get_last_scan_page" =>
             IsLastPage(call.ret, call.args[1], call.args[2]))
  /\ [][ /\ Len(scan_history') >= Len(scan_history)
          /\ \A i \in 1..Len(scan_history) : scan_history'[i] = scan_history[i]
          /\ IsCall("add_scan_record") => Len(scan_history') = Len(scan_history) + 1
        ]_vars

\* The call returned a page that is smaller than the page recorded for the
\* same keyword in another language.
C23_Witness ==
  /\ call.op = "get_last_scan_page"
  /\ call.ret = <<1>>
  /\ \E i \in 1..Len(scan_history) :
        /\ scan_history[i].keyword = call.args[1]
        /\ scan_history[i].language # call.args[2]
        /\ scan_history[i].page > 1

\* The path scan that follows a keyword scan over the same patterns is over.
TwinOver == pc = "add" /\ baseline # <<>> /\ args.high_value_only

\* An event of the keyword scan, as the path scan would log it.
TwinEvent(e) ==
  IF e.ev = "req" THEN [e EXCEPT !.item = TwinItem(e.item)] ELSE e

\* The two scans issued the same requests with the same iteration indexes
\* and slept the same delays, in the same order.
SameControlFlow ==
  LET kw == baseline[1].trace
  IN  /\ Len(trace) = Len(kw)
      /\ \A i \in 1..Len(kw) : trace[i] = TwinEvent(kw[i])

\* The candidates differ in the query, where it is the source_url, and in
\* the origin tag only.
IsQuery(url) == Len(url) = 2 /\ url[1] = "search"

SameCandidate(kw, path) ==
  /\ path.api_key = kw.api_key
  /\ path.file_path = kw.file_path
  /\ IF IsQuery(kw.source_url)
       THEN path.source_url = SearchUrl(TwinItem(kw.source_url[2]))
       ELSE path.source_url = kw.source_url

SameCandidates ==
  LET kw == baseline[1].results
  IN  /\ Len(results) = Len(kw)
      /\ \A i \in 1..Len(kw) : SameCandidate(kw[i], results[i])

\* C22: search_by_path over a list of path patterns issues the same sequence
\* of (combination, page) requests, with the same resume skip, the same
\* early termination and the same continue-after-error policy, as search
\* run with those patterns as keywords and a single language; the results
\* differ only in the query built and in the origin tag.
C22_PathModeSameControlFlow ==
  TwinOver => SameControlFlow /\ SameCandidates

\* The run is in validate-existing-only mode.
CheckOnly == args.check_existed_keys_only

\* Nothing of the scan phase has happened.
NoScan ==
  /\ pc \notin ScanPositions \cup {"interrupted", "failed", "exit"}
  /\ ~logged_in
  /\ trace = <<>>
  /\ pageContent = <<>>
  /\ found_keys = {}
  /\ results = <<>>

\* Rows that were validated before the run, and rows that this run validated.
ValidatedBefore(r) == r.last_checked = Stored(r.api_key, "valid").last_checked
ValidatedNow(r)    == r.last_checked > Stored(r.api_key, "valid").last_checked

\* The validation pass went over the rows that were unknown at start, once
\* each and in order, and over no other row.
ValidatedTheUnknown ==
  /\ \A i \in 1..Len(api_keys) :
        /\ ValidatedBefore(api_keys[i]) \/ ValidatedNow(api_keys[i])
        /\ ValidatedBefore(api_keys[i]) =>
              api_keys[i] = Stored(api_keys[i].api_key, api_keys[i].status)
  /\ [n \in 1..Len(verdicts) |-> verdicts[n].api_key]
       = [n \in 1..Len(SelectSeq(api_keys, ValidatedNow)) |->
            SelectSeq(api_keys, ValidatedNow)[n].api_key]

\* A step writes to rows whose status is unknown only.
OnlyUnknownWritten ==
  \A i \in 1..Len(api_keys) :
    api_keys'[i] # api_keys[i] => api_keys[i].status = "unknown"

\* C24: with the check-existed-keys-only flag set, the run never starts a
\* Page Source session, issues no search page request and adds no record
\* to the store; it validates exactly the records that are unknown at start
\* and then ends.
C24_CheckOnlyMode ==
  /\ [](CheckOnly =>
          /\ NoScan
          /\ NewRows(api_keys) = <<>>
          /\ pc = "done" => ValidatedTheUnknown /\ exit_code = 0)
  /\ [][CheckOnly => OnlyUnknownWritten]_vars
  /\ CheckOnly ~> (pc = "done")

\* A check-only run is over on a store that held a validated row and an
\* unknown one.
C24_Witness ==
  /\ CheckOnly
  /\ pc = "done"
  /\ Len(verdicts) = 1
  /\ \E i \in 1..Len(api_keys) : ValidatedBefore(api_keys[i])

\* The largest number of rounds of a mode's loops: len(keywords) x
\* len(languages) x max_pages, or len(path_patterns) x max_pages.
Budget(mode) ==
  IF mode = "kw" THEN Len(args.keywords) * Len(args.languages) * args.max_pages
  ELSE Len(HIGH_VALUE_PATHS) * args.max_pages

\* `item` comes before `next` in the nested order keyword (or pattern),
\* language, page.
Before(item, next) ==
  \/ ComboIndex(args, item) < ComboIndex(args, next)
  \/ /\ ComboOf(item) = ComboOf(next)
     /\ PageOf(item) < PageOf(next)

ModeAt(p) == trace[p].item[1]

\* The requests so far are within the budget of their mode, in nested order
\* and with increasing iteration index.
OrderedEnumeration ==
  /\ \A mode \in {"kw", "path"} :
        Len(RequestsOf(mode, Requests(trace))) <= Budget(mode)
  /\ \A p \in ReqPositions :
        /\ PageOf(trace[p].item) \in 1..args.max_pages
        /\ trace[p].iter \in 1..Budget(ModeAt(p))
  /\ \A p, q \in ReqPositions :
        p < q =>
          /\ Before(trace[p].item, trace[q].item)
          /\ ModeAt(p) = ModeAt(q) => trace[p].iter < trace[q].iter
  /\ pc \in {"search", "path"} =>
        iteration <= Budget(IF pc = "search" THEN "kw" ELSE "path")

\* C25: for any page responses and any pattern of per-item errors a scan
\* terminates after at most len(keywords) x len(languages) x max_pages page
\* requests (len(path_patterns) x max_pages in path mode); the requests
\* follow the nested order keyword, language, page 1..max_pages with
\* strictly increasing iteration index, so no work item is requested twice
\* within one run.
C25_FiniteOrderedEnumeration ==
  /\ []OrderedEnumeration
  /\ (pc \in {"search", "path"}) ~> (pc = "add")

\* A scan is over that requested every page of every combination, one of
\* them failing.
C25_Witness ==
  /\ pc = "add"
  /\ Len(Requests(trace)) = Budget("kw")
  /\ Len(Combos(args)) = 2 /\ args.max_pages = MaxPagesBound
  /\ ~args.high_value_only
  /\ \E p \in ReqPositions : FailedAt(p)

\* The credentials of a list of result tuples.
KeysOf(tuples) == { tuples[n].api_key : n \in 1..Len(tuples) }

\* The result tuples that the page calls of this scanner have returned.
Returned == results \o sresults

\* A page call's step adds to found_keys the credentials of the tuples it
\* returns, and no other.
AddsWhatItReturns ==
  run' = run =>
    /\ Len(results' \o sresults') >= Len(Returned)
    /\ found_keys' \ found_keys
         = { (results' \o sresults')[n].api_key :
               n \in (Len(Returned) + 1)..Len(results' \o sresults') }

\* The extraction of a served page raised part-way through its result blocks.
RaisedPartWay(content) ==
  content.nav = "ok" /\ \E j \in 1..Len(content.items) : content.items[j].fault

\* C26: at every point of a scan found_keys is the set of credentials of
\* the result tuples that the page calls have returned; a credential is
\* never added to found_keys without being emitted, also when the
\* extraction raises part-way through a page.
C26_RegistryAgreement ==
  /\ [](found_keys = KeysOf(Returned))
  /\ [][AddsWhatItReturns]_vars

\* The extraction of a page raised after it had emitted a new credential
\* and before it read another one, which no page emitted.
C26_Witness ==
  /\ pc = "add"
  /\ found_keys = {"AIza_k1"}
  /\ \E i \in 1..Len(Requests(trace)) :
        /\ RaisedPartWay(ContentAt(i))
        /\ "AIza_k1" \in NewAt(i)

\* The statuses validate_key may return.
Outcomes == {"valid", "invalid", "rate_limited", "restricted", "error"}

\* Every call of the pass so far returned one of the five statuses, for the
\* rows of `unchecked` in order, whatever the probes of earlier rows did.
EveryCallReturns ==
  /\ Len(verdicts) <= Len(unchecked)
  /\ \A n \in 1..Len(verdicts) :
        /\ verdicts[n].api_key = unchecked[n].api_key
        /\ verdicts[n].status \in Outcomes
  /\ pc \in {"validating", "geocoding"} => vidx = Len(verdicts) + 1
  /\ pc \in {"summary", "done"} => Len(verdicts) = Len(unchecked)

\* What the responses of the environment make the two probes return.
EveryResponseClassified ==
  \A resp \in world.responses :
    /\ ValidateKeyPrimary(resp).fallback \/ ValidateKeyPrimary(resp).status \in Outcomes
    /\ ~TryGeocodingResult(resp).fallback
    /\ TryGeocodingResult(resp).status \in Outcomes

\* C27: for every outcome of the primary and of the secondary probe (any
\* status code, a missing status, a timeout, a transport error or any other
\* exception) validate_key returns one of valid, invalid, rate_limited,
\* restricted, error, never unknown, and never raises: one credential's
\* failure does not stop the validation of the remaining credentials.
C27_ValidateKeyTotal == EveryCallReturns /\ EveryResponseClassified

\* The pass is over: the first row's primary probe raised, the second
\* row's geocoding probe timed out, and both rows have a verdict.
C27_Witness ==
  /\ pc = "summary"
  /\ Len(verdicts) = 2
  /\ verdicts[1].primary.kind = "Exception"
  /\ verdicts[2].secondary.kind = "Timeout"

\* The resumed scan did what the scan from the start did.
SameAsBaseline ==
  /\ Requests(trace) = Requests(baseline[1].trace)
  /\ trace = baseline[1].trace
  /\ results = baseline[1].results

\* The resumed enumeration requested nothing and returned nothing.
NothingScanned ==
  /\ RequestsOf(ResumedMode, Requests(trace)) = <<>>
  /\ ~args.high_value => trace = <<>> /\ results = <<>>

\* C28: search (and search_by_path) with from_iter = 0 and with from_iter =
\* 1 issue identical sequences of page requests and return identical
\* results for the same inputs; a from_iter greater than the total number
\* of iterations issues no request and returns an empty list.
C28_ResumeBoundary ==
  ResumedScanOver =>
    /\ args.from_iter \in {0, 1} => SameAsBaseline
    /\ args.from_iter > Budget(ResumedMode) => NothingScanned

\* A scan with from_iter = 1 is over that requested two pages and returned
\* a credential.
C28_Witness ==
  /\ ResumedScanOver
  /\ args.from_iter = 1
  /\ Len(Requests(trace)) >= 2
  /\ results # <<>>

\* The request events of one mode, in order.
ReqEventsOf(mode) ==
  SelectSeq(trace, LAMBDA e : e.ev = "req" /\ e.item[1] = mode)

\* The first round that an enumeration with offset `from` does not skip.
FirstRound(from) == IF from = 0 THEN 1 ELSE from

\* The phase of `mode` is over and it began at round `first`: unless that is
\* beyond its enumeration, its first request is the one of that round.
BeganAt(mode, first) ==
  LET reqs == ReqEventsOf(mode)
  IN  /\ \A n \in 1..Len(reqs) : reqs[n].iter >= first
      /\ first <= Budget(mode) => reqs # <<>> /\ reqs[1].iter = first

KeywordPhaseOver == pc \in {"path_begin", "path", "path_end", "add"} /\ logged_in
PathPhaseOver    == pc = "add" /\ logged_in

\* C29: the start iteration offset is applied to the keyword phase whenever
\* that phase runs; the high-value-path phase receives the offset only in
\* high-value-only mode, and in combined mode the path phase enumerates
\* from its first item regardless of the offset.
C29_OffsetRouting ==
  /\ pc = "search" => from_iter = args.from_iter
  /\ pc = "path" => from_iter = (IF args.high_value_only THEN args.from_iter ELSE 0)
  /\ (KeywordPhaseOver /\ ~args.high_value_only) =>
        BeganAt("kw", FirstRound(args.from_iter))
  /\ (PathPhaseOver /\ args.high_value_only) =>
        BeganAt("path", FirstRound(args.from_iter))
  /\ (PathPhaseOver /\ args.high_value /\ ~args.high_value_only) =>
        /\ BeganAt("path", 1)
        /\ ReqEventsOf("path")[1].item = PathItem(HIGH_VALUE_PATHS[1], 1)

\* A combined run with offset 2 is over: the keyword phase began at round 2
\* and the path phase at its first item.
C29_Witness ==
  /\ PathPhaseOver
  /\ args.high_value /\ ~args.high_value_only
  /\ args.from_iter = 2
  /\ ReqEventsOf("kw") # <<>>
  /\ ReqEventsOf("path") # <<>>

\* The response is the JSON body with one of the given status codes.
HasStatus(resp, codes) == resp.kind = "json" /\ resp.status \in codes

\* C30: get_key_info returns places_api true only if the primary (Places)
\* probe returned OK or ZERO_RESULTS, and geocoding_api true exactly when
\* the geocoding probe returns OK; a credential whose primary probe returns
\* INVALID_REQUEST and which works through the geocoding fallback only is
\* not reported with places_api true.
C30_KeyInfo ==
  call.op = "get_key_info" =>
    /\ call.ret.places_api => HasStatus(probes[1].response, {"OK", "ZERO_RESULTS"})
    /\ call.ret.geocoding_api <=> HasStatus(probes[Len(probes)].response, {"OK"})
====
